---- MODULE Spec2Model ----
(***************************************************************************)
(* A model of the SEO-Blog-Creator pipeline: serp.py (search fetch with    *)
(* retries), perplexity.py (deep research), analyzer.py (scraping with     *)
(* retries, content analysis, outline and report generation) and           *)
(* main_streamlit.py (the run started by "Generate Analysis", blog         *)
(* generation and the result tabs).                                        *)
(*                                                                         *)
(* Conventions.  A Python dict is a record with a field "keys" holding the *)
(* keys that are present, so that dict.get(k, default) is a test on        *)
(* "keys".  A call that may raise returns [exc |-> BOOLEAN, val |-> ...].   *)
(* A text is a sequence of string pieces (the pieces an f-string joins);   *)
(* it is the empty string when every piece is "".  None is a record with   *)
(* none |-> TRUE.                                                          *)
(***************************************************************************)
EXTENDS Naturals, Integers, Sequences, FiniteSets, TLC

\* ------------------------------------------------------------------ bounds
\* number of organic results a search response carries at most
MaxOrganic == 2
\* number of citation URLs a deep-research response carries at most
MaxCitations == 1
\* context assembly: organic results, questions, related searches of a search
\* response, competitor profiles, calls of prepare_llm_context
MaxResults == 6
MaxQuestions == 2
MaxRelated == 1
MaxProfiles == 2
MaxCalls == 2
\* sentences of an analysed page
MaxSentences == 4
\* pieces of a deep-research answer handed to extract_research_content
MaxThinking == 4
\* lines of the outline handed to create_combined_pdf
MaxLines == 2

\* ------------------------------------------------------- program constants
\* serp.py: max_retries of get_search_results
SerpMaxRetries == 3
\* serp.py: time.sleep(2) after a failed request
SerpDelay == 2
\* analyzer.py: max_retries of scrape_competitor_content / scrape_citations
ScrapeMaxRetries == 3
\* analyzer.py: time.sleep(5) after a failed scrape
ScrapeDelay == 5
\* main_streamlit.py: serp_data.get('organic_results', [])[:5]
TopCompetitors == 5
\* analyzer.py: most_common(10)
TopN == 10

\* --------------------------------------------------------------- utilities
Min(a, b) == IF a < b THEN a ELSE b

Take(s, n) == SubSeq(s, 1, Min(n, Len(s)))

Range(s) == {s[i] : i \in DOMAIN s}

\* a text is the empty string iff all its pieces are
TextIsEmpty(t) == \A i \in DOMAIN t : t[i] = ""

\* ------------------------------------------------- documents and scraping
\* Markup tokens of a scraped document; every other token is a word, except
\* the blank-line token that separates paragraphs.
ListTags == {"<ul>", "<ol>"}
HeadingTags == {"<h1>", "<h2>", "<h3>", "<h4>", "<h5>", "<h6>"}
Tags == ListTags \cup HeadingTags \cup {"<table>", "<img>", "<a>"}
ParBreak == "\n\n"

\* str.lower() on the word tokens used below
Lower(w) == IF w = "Seo" THEN "seo" ELSE w

\* The documents the scraping provider returns.  "toks" is the document,
\* "phrases" the runs of 10-30 word characters and spaces that the pattern
\* of extract_common_phrases finds in its lower-cased text, in text order.
DocHtml == [none |-> FALSE,
            toks |-> <<"<h1>", "Seo", "seo", "<ul>", "tips", "<a>">>,
            phrases |-> <<"seo seo tips">>]
DocMarkdown == [none |-> FALSE,
                toks |-> <<"tips", ParBreak, "Seo", "tips">>,
                phrases |-> <<"tips seo tips", "tips seo tips">>]
DocTagsOnly == [none |-> FALSE, toks |-> <<"<img>">>, phrases |-> <<>>]
\* the sentence numbers of the long page
LongNumbers == <<1, 2, 3, 4, 5, 6, 7, 8, 9, 10, 11, 12, 12, 2>>

\* a page with more than ten distinct words and phrases, some repeated: the
\* sentences "common phrase 1.", "common phrase 2.", ...
DocLong ==
  [none |-> FALSE,
   toks |-> [i \in 1..(3 * Len(LongNumbers)) |->
               CASE i % 3 = 1 -> "common"
                 [] i % 3 = 2 -> "phrase"
                 [] OTHER -> ToString(LongNumbers[i \div 3])],
   phrases |-> [i \in DOMAIN LongNumbers |-> "common phrase " \o ToString(LongNumbers[i])]]
DocEmpty == [none |-> FALSE, toks |-> <<>>, phrases |-> <<>>]
DocNone == [none |-> TRUE, toks |-> <<>>, phrases |-> <<>>]

\* The dicts firecrawl.scrape_url returns: html and markdown, markdown only,
\* an html of markup without text, a None html value.
ScrapeResults ==
  { [keys |-> {"html", "markdown"}, html |-> DocHtml, markdown |-> DocMarkdown],
    [keys |-> {"markdown"}, html |-> DocEmpty, markdown |-> DocMarkdown],
    [keys |-> {"html"}, html |-> DocTagsOnly, markdown |-> DocEmpty],
    [keys |-> {"html"}, html |-> DocNone, markdown |-> DocEmpty] }

\* result.get('html', result.get('markdown', ''))
ResultContent(result) ==
  IF "html" \in result.keys THEN result.html
  ELSE IF "markdown" \in result.keys THEN result.markdown
  ELSE DocEmpty

\* The library calls analyze_content relies on; each may raise.
SubSteps == {"soup", "phrases", "structure", "topics", "elements"}

\* ------------------------------------------------------ Counter.most_common
Count(s, x) == Cardinality({i \in DOMAIN s : s[i] = x})

FirstIdx(s, x) == CHOOSE i \in DOMAIN s : s[i] = x /\ \A j \in DOMAIN s : s[j] = x => i <= j

\* x is ranked before y: higher count, or equal count and seen first
Before(s, x, y) ==
  \/ Count(s, x) > Count(s, y)
  \/ Count(s, x) = Count(s, y) /\ FirstIdx(s, x) < FirstIdx(s, y)

RankOf(s, x) == 1 + Cardinality({y \in Range(s) : Before(s, y, x)})

\* most_common breaking ties by the last occurrence
most_common_ties_last(s, n) ==
  LET k == Min(n, Cardinality(Range(s)))
      LastIdx(x) == CHOOSE i \in DOMAIN s : s[i] = x /\ \A j \in DOMAIN s : s[j] = x => j <= i
      Precedes(x, y) == \/ Count(s, x) > Count(s, y)
                        \/ Count(s, x) = Count(s, y) /\ LastIdx(x) < LastIdx(y)
  IN  [r \in 1..k |->
         CHOOSE x \in Range(s) : 1 + Cardinality({y \in Range(s) : Precedes(y, x)}) = r]

\* Counter(s).most_common(n) without the counts
most_common(s, n) ==
  LET k == Min(n, Cardinality(Range(s)))
  IN  [r \in 1..k |-> CHOOSE x \in Range(s) : RankOf(s, x) = r]

IsTag(t) == t \in Tags

\* BeautifulSoup(content).get_text(): the document without its markup
get_text(toks) == SelectSeq(toks, LAMBDA t : ~IsTag(t))

\* text.split(): the whitespace-delimited tokens
Words(toks) == SelectSeq(toks, LAMBDA t : t # ParBreak)

\* re.findall(r'\b\w+\b', ...): the word a token contributes
WordOf(t) ==
  CASE t = "<ul>" -> "ul" [] t = "<ol>" -> "ol" [] t = "<table>" -> "table"
    [] t = "<img>" -> "img" [] t = "<a>" -> "a"
    [] t = "<h1>" -> "h1" [] t = "<h2>" -> "h2" [] t = "<h3>" -> "h3"
    [] t = "<h4>" -> "h4" [] t = "<h5>" -> "h5" [] t = "<h6>" -> "h6"
    [] OTHER -> Lower(t)

\* ------------------------------------------------------- analyzer.py: analysis
EmptyStructure == [keys |-> {}, total_paragraphs |-> 0, avg_sum |-> 0, avg_n |-> 1]

EmptyElements == [keys |-> {}, lists |-> 0, tables |-> 0, images |-> 0,
                  links |-> 0, headings |-> 0]

\* the dict {} that analyze_content returns from its except branch
EmptyAnalysis ==
  [keys |-> {}, word_count |-> 0, common_phrases |-> <<>>,
   content_structure |-> EmptyStructure, key_topics |-> <<>>,
   content_elements |-> EmptyElements]

AnalysisKeys == {"word_count", "common_phrases", "content_structure",
                 "key_topics", "content_elements"}

\* extract_common_phrases: the 10 most frequent matches, [] when findall raises
extract_common_phrases(text, F) ==
  IF "phrases" \in F THEN <<>> ELSE most_common(text.phrases, TopN)

\* analyze_content_structure: paragraph count and mean paragraph length (kept
\* as the pair sum / count), {} when the computation raises
analyze_content_structure(text, F) ==
  IF "structure" \in F THEN EmptyStructure
  ELSE LET paragraphs == 1 + Count(text.toks, ParBreak)
       IN  [keys |-> {"total_paragraphs", "avg_paragraph_length"},
            total_paragraphs |-> paragraphs,
            avg_sum |-> Len(Words(text.toks)),
            avg_n |-> paragraphs]

\* extract_key_topics: the 10 most frequent lower-cased words, [] on failure
extract_key_topics(text, F) ==
  IF "topics" \in F THEN <<>>
  ELSE most_common([i \in DOMAIN Words(text.toks) |-> WordOf(Words(text.toks)[i])], TopN)

CountIn(toks, S) == Cardinality({i \in DOMAIN toks : toks[i] \in S})

\* identify_content_elements: markup node counts of the raw content, {} when
\* the parse raises (a None content makes it raise)
identify_content_elements(content, F) ==
  IF "elements" \in F \/ content.none THEN EmptyElements
  ELSE [keys |-> {"lists", "tables", "images", "links", "headings"},
        lists |-> CountIn(content.toks, ListTags),
        tables |-> CountIn(content.toks, {"<table>"}),
        images |-> CountIn(content.toks, {"<img>"}),
        links |-> CountIn(content.toks, {"<a>"}),
        headings |-> CountIn(content.toks, HeadingTags)]

\* the try block of analyze_content; it raises when BeautifulSoup(content)
\* does (a None content, or a parser failure)
analyze_content_try(content, F) ==
  IF content.none \/ "soup" \in F THEN [exc |-> TRUE, val |-> EmptyAnalysis]
  ELSE LET plain == get_text(content.toks)
           text_content == IF plain # <<>> THEN [content EXCEPT !.toks = plain]
                           ELSE content
       IN  [exc |-> FALSE,
            val |-> [keys |-> AnalysisKeys,
                     word_count |-> Len(Words(text_content.toks)),
                     common_phrases |-> extract_common_phrases(text_content, F),
                     content_structure |-> analyze_content_structure(text_content, F),
                     key_topics |-> extract_key_topics(text_content, F),
                     content_elements |-> identify_content_elements(content, F)]]

\* analyze_content without its except branch
analyze_content_no_except(content, F) == analyze_content_try(content, F)

\* analyze_content: the try block, with "except Exception: return {}"
analyze_content(content, F) ==
  LET r == analyze_content_try(content, F)
  IN  IF r.exc THEN [exc |-> FALSE, val |-> EmptyAnalysis] ELSE r

\* ------------------------------------------------------------------- state
VARIABLES
  keys,             \* st.secrets: which API keys are set
  search_query,     \* the query text input
  auto_generate,    \* the "automatically generate blog content" checkbox
  faults,           \* the library calls of the analysis that raise in this run
  pc,               \* position of the run in main()
  attempt,          \* loop variable of the retry loop being executed
  requests,         \* calls issued by the current retry loop (per URL for scrapers)
  slept,            \* seconds slept since the last call of the current loop
  serp_data,        \* result of get_search_results
  deep_thinking,    \* text of the deep-research answer
  citation_urls,    \* citations of the deep-research answer
  analyzer,         \* LLMEnhancedAnalyzer: article_intent, secondary_keywords
  url_idx,          \* index of the URL the scraper loop is at
  attempted,        \* indices of the URLs the current scraper call has tried
  scraped_content,  \* list the current scraper call is building
  competitor_data,  \* result of scrape_competitor_content
  citation_data,    \* result of scrape_citations
  enhanced_outline, \* the outline artifact
  research_report,  \* the research-report artifact
  blog_content,     \* the blog artifact (None until generated)
  displayed,        \* artifacts shown in the tabs with their download buttons
  errors,           \* messages given to st.error / st.warning
  last,             \* what the latest external call ended in
  failed,           \* stages whose external call failed although its key is set
  contexts,         \* the calls of prepare_llm_context made so far, with their results
  doc,              \* the content handed to analyze_content
  doc_analysis,     \* what analyze_content returned for it
  research_content, \* result of extract_research_content
  pdf_args,         \* arguments of the create_combined_pdf call
  pdf,              \* the FPDF object of create_combined_pdf and what became of the call
  research_calls    \* calls of deep_research made in the run

vars == <<keys, search_query, auto_generate, faults, pc, attempt, requests,
          slept, serp_data, deep_thinking, citation_urls, analyzer, url_idx,
          attempted, scraped_content, competitor_data, citation_data,
          enhanced_outline, research_report, blog_content, displayed, errors,
          last, failed, contexts, doc, doc_analysis, research_content,
          pdf_args, pdf, research_calls>>

KeyNames == {"SERPAPI_KEY", "PERPLEXITY_API_KEY", "FIRECRAWL_API_KEY",
             "OPENAI_API_KEY", "ANTHROPIC_API_KEY"}

Queries == {"", "concrete mixing ratios"}

\* the selectbox options of main()
Intents == {"informational", "commercial", "transactional", "navigational"}

NoText == [none |-> TRUE, text |-> <<>>]

Text(t) == [none |-> FALSE, text |-> t]

\* Python truthiness of an Optional[str]
Truthy(v) == ~v.none /\ ~TextIsEmpty(v.text)

EmptyDict == [keys |-> {}, organic_results |-> <<>>, related_questions |-> <<>>,
              related_searches |-> <<>>, q |-> ""]

\* the JSON bodies a 200 answer of the search provider carries: the empty
\* object, or n organic results with the echoed search parameters
CompetitorUrl(i) == "https://competitor/" \o ToString(i)

SerpJson(n, q) ==
  [keys |-> {"organic_results", "search_parameters"},
   organic_results |-> [i \in 1..n |-> CompetitorUrl(i)],
   related_questions |-> <<>>,
   related_searches |-> <<>>,
   q |-> q]

\* a body that also carries p "people also ask" questions and r related
\* searches
SerpPage(n, p, r, q) ==
  [keys |-> {"organic_results", "related_questions", "related_searches",
             "search_parameters"},
   organic_results |-> [i \in 1..n |-> CompetitorUrl(i)],
   related_questions |-> [i \in 1..p |-> "question " \o ToString(i)],
   related_searches |-> [i \in 1..r |-> "related " \o ToString(i)],
   q |-> q]

SerpResponses(q) == {EmptyDict} \cup {SerpJson(n, q) : n \in 0..MaxOrganic}

\* "if not serp_data"
IsEmptyDict(d) == d.keys = {}

\* the record kept of an external call: the call, how it ended, what it gave
Outcome(call, kind, payload) == [call |-> call, kind |-> kind, payload |-> payload]

CitationUrl(i) == "https://citation/" \o ToString(i)

\* create_combined_pdf has not been called
NoPdfArgs ==
  [called |-> FALSE, outline |-> NoText, research |-> NoText,
   blog_content |-> NoText, query |-> ""]

\* no FPDF object yet
NoPdf ==
  [font |-> [style |-> "", size |-> 0], ops |-> <<>>, log |-> <<>>, line |-> 0]

Init ==
  /\ keys \in [KeyNames -> BOOLEAN]
  /\ search_query = ""
  /\ auto_generate = TRUE
  /\ faults = {}
  /\ pc = "sidebar"
  /\ attempt = 0
  /\ requests = 0
  /\ slept = 0
  /\ serp_data = EmptyDict
  /\ deep_thinking = <<>>
  /\ citation_urls = <<>>
  /\ analyzer = [article_intent |-> "", secondary_keywords |-> <<>>]
  /\ url_idx = 0
  /\ attempted = {}
  /\ scraped_content = <<>>
  /\ competitor_data = <<>>
  /\ citation_data = <<>>
  /\ enhanced_outline = NoText
  /\ research_report = NoText
  /\ blog_content = NoText
  /\ displayed = {}
  /\ errors = {}
  /\ last = Outcome("none", "none", <<>>)
  /\ failed = {}
  /\ contexts = <<>>
  /\ doc = DocEmpty
  /\ doc_analysis = EmptyAnalysis
  /\ research_content = NoText
  /\ pdf_args = NoPdfArgs
  /\ pdf = NoPdf
  /\ research_calls = 0

\* ------------------------------------------------ main_streamlit.py: sidebar
\* check_api_keys: the configured ones of the three keys main_streamlit reads
check_api_keys(k) ==
  LET three == {"FIRECRAWL_API_KEY", "OPENAI_API_KEY", "ANTHROPIC_API_KEY"}
  IN  [api_status |-> {n \in three : k[n]}, missing_keys |-> {n \in three : ~k[n]}]

\* the sidebar of main(): st.stop() when none of the three keys is configured
Sidebar ==
  /\ pc = "sidebar"
  /\ LET c == check_api_keys(keys)
     IN  /\ errors' = IF c.missing_keys # {} THEN errors \cup {"Missing API keys"}
                      ELSE errors
         /\ pc' = IF c.missing_keys # {} /\ c.api_status = {} THEN "stopped"
                  ELSE "inputs"
  /\ UNCHANGED <<research_calls, contexts, doc, doc_analysis, research_content, pdf_args, pdf>>
  /\ UNCHANGED <<keys, search_query, auto_generate, faults, attempt, requests,
                 slept, serp_data, deep_thinking, citation_urls, analyzer,
                 url_idx, attempted, scraped_content, competitor_data,
                 citation_data, enhanced_outline, research_report,
                 blog_content, displayed, last, failed>>

\* the "Generate Analysis" button, with the widget values of this run: an
\* empty query ends the run with a warning
GenerateAnalysis ==
  /\ pc = "inputs"
  /\ \E q \in Queries, auto \in BOOLEAN :
       /\ search_query' = q
       /\ auto_generate' = auto
       /\ IF q = ""
          THEN /\ errors' = errors \cup {"Please enter a search query"}
               /\ pc' = "returned"
          ELSE /\ errors' = errors
               /\ pc' = "serp_begin"
  /\ UNCHANGED <<research_calls, contexts, doc, doc_analysis, research_content, pdf_args, pdf>>
  /\ UNCHANGED <<keys, faults, attempt, requests,
                 slept, serp_data, deep_thinking, citation_urls, analyzer,
                 url_idx, attempted, scraped_content, competitor_data,
                 citation_data, enhanced_outline, research_report,
                 blog_content, displayed, last, failed>>

\* ------------------------------------------------------------------ serp.py
\* what one requests.get of get_search_results ends in
SerpOutcomes(q) ==
  {[kind |-> "ok", json |-> j] : j \in SerpResponses(q)}
  \cup {[kind |-> "non200", json |-> EmptyDict],
        [kind |-> "exception", json |-> EmptyDict]}

\* get_search_results up to the retry loop: a missing key returns {}
get_search_results_begin ==
  /\ pc = "serp_begin"
  /\ IF ~keys["SERPAPI_KEY"]
     THEN /\ errors' = errors \cup {"SERPAPI_KEY is not set in Streamlit secrets"}
          /\ pc' = "serp_check"
     ELSE /\ errors' = errors
          /\ pc' = "serp_attempt"
  /\ serp_data' = EmptyDict
  /\ attempt' = 0
  /\ requests' = 0
  /\ slept' = 0
  /\ last' = Outcome("serp", IF keys["SERPAPI_KEY"] THEN "none" ELSE "no_key", <<>>)
  /\ UNCHANGED <<research_calls, contexts, doc, doc_analysis, research_content, pdf_args, pdf>>
  /\ UNCHANGED <<keys, search_query, auto_generate, faults, deep_thinking,
                 citation_urls, analyzer, url_idx, attempted, scraped_content,
                 competitor_data, citation_data, enhanced_outline,
                 research_report, blog_content, displayed, failed>>

\* get_search_results with a loop of two iterations
serp_after_two(kind, a) ==
  CASE kind = "ok" -> "return"
    [] kind = "non200" -> IF a = SerpMaxRetries - 2 THEN "return" ELSE "retry"
    [] OTHER -> IF a = SerpMaxRetries - 2 THEN "return" ELSE "sleep"

\* where the loop of get_search_results goes after a request:
\* a 200 returns the body; another status goes straight to the next
\* iteration (the loop ends after the last); a RequestException returns {}
\* on the last attempt and sleeps otherwise
serp_after(kind, a) ==
  CASE kind = "ok" -> "return"
    [] kind = "non200" -> IF a = SerpMaxRetries - 1 THEN "return" ELSE "retry"
    [] OTHER -> IF a = SerpMaxRetries - 1 THEN "return" ELSE "sleep"

\* one iteration of the retry loop of get_search_results
get_search_results_attempt ==
  /\ pc = "serp_attempt"
  /\ \E out \in SerpOutcomes(search_query) :
       LET next == serp_after(out.kind, attempt)
       IN  /\ requests' = requests + 1
           /\ slept' = 0
           /\ serp_data' = IF out.kind = "ok" THEN out.json ELSE EmptyDict
           /\ attempt' = IF next = "retry" THEN attempt + 1 ELSE attempt
           /\ pc' = CASE next = "return" -> "serp_check"
                      [] next = "retry" -> "serp_attempt"
                      [] OTHER -> "serp_sleep"
           /\ last' = Outcome("serp", out.kind, out.json)
           /\ failed' = IF next = "return" /\ (out.kind # "ok" \/ IsEmptyDict(out.json))
                        THEN failed \cup {"search"} ELSE failed
  /\ UNCHANGED <<research_calls, contexts, doc, doc_analysis, research_content, pdf_args, pdf>>
  /\ UNCHANGED <<keys, search_query, auto_generate, faults, deep_thinking,
                 citation_urls, analyzer, url_idx, attempted, scraped_content,
                 competitor_data, citation_data, enhanced_outline,
                 research_report, blog_content, displayed, errors>>

\* time.sleep(2) in the except branch, then the next iteration
get_search_results_sleep ==
  /\ pc = "serp_sleep"
  /\ slept' = SerpDelay
  /\ attempt' = attempt + 1
  /\ pc' = "serp_attempt"
  /\ UNCHANGED <<research_calls, contexts, doc, doc_analysis, research_content, pdf_args, pdf>>
  /\ UNCHANGED <<keys, search_query, auto_generate, faults, requests, serp_data,
                 deep_thinking, citation_urls, analyzer, url_idx, attempted,
                 scraped_content, competitor_data, citation_data,
                 enhanced_outline, research_report, blog_content, displayed,
                 errors, last, failed>>

\* main(): "if not serp_data: st.error(...); return"
SerpCheck ==
  /\ pc = "serp_check"
  /\ IF IsEmptyDict(serp_data)
     THEN /\ errors' = errors \cup {"Failed to fetch SERP data"}
          /\ pc' = "returned"
     ELSE /\ errors' = errors
          /\ pc' = "research"
  /\ attempt' = 0
  /\ requests' = 0
  /\ slept' = 0
  /\ UNCHANGED <<research_calls, contexts, doc, doc_analysis, research_content, pdf_args, pdf>>
  /\ UNCHANGED <<keys, search_query, auto_generate, faults, serp_data,
                 deep_thinking, citation_urls, analyzer, url_idx, attempted,
                 scraped_content, competitor_data, citation_data,
                 enhanced_outline, research_report, blog_content, displayed,
                 last, failed>>

\* ------------------------------------------------------------ perplexity.py
DefaultThinking == <<"No deep research output provided.">>

\* the JSON bodies a 200 answer of the deep-research provider carries: an
\* answer with k citations, an object without choices, an empty choices list
ResearchJson(k) ==
  [keys |-> {"choices", "citations"}, choices |-> <<"deep research answer">>,
   has_choice |-> TRUE, citations |-> [i \in 1..k |-> CitationUrl(i)]]

EmptyResearch ==
  [keys |-> {}, choices |-> <<>>, has_choice |-> FALSE, citations |-> <<>>]

NoChoiceResearch ==
  [keys |-> {"choices"}, choices |-> <<>>, has_choice |-> FALSE, citations |-> <<>>]

ResearchResponses ==
  {ResearchJson(k) : k \in 0..MaxCitations} \cup {EmptyResearch, NoChoiceResearch}

\* what the single requests.post of deep_research ends in
ResearchOutcomes ==
  {[kind |-> "ok", json |-> j] : j \in ResearchResponses}
  \cup {[kind |-> "non200", json |-> EmptyResearch],
        [kind |-> "exception", json |-> EmptyResearch]}

\* deep_research raising on a status other than 200
deep_research_raise_on_status(has_key, out) ==
  IF ~has_key THEN [exc |-> FALSE, val |-> EmptyResearch]
  ELSE CASE out.kind = "ok" -> [exc |-> FALSE, val |-> out.json]
         [] OTHER -> [exc |-> TRUE, val |-> EmptyResearch]

\* deep_research raising when its key is not set
deep_research_raise_without_key(has_key, out) ==
  IF ~has_key THEN [exc |-> TRUE, val |-> EmptyResearch]
  ELSE CASE out.kind = "ok" -> [exc |-> FALSE, val |-> out.json]
         [] out.kind = "non200" -> [exc |-> FALSE, val |-> EmptyResearch]
         [] OTHER -> [exc |-> TRUE, val |-> EmptyResearch]

\* deep_research: {} without a key or on a status other than 200; the
\* request is not inside a try, so its exception leaves the function
deep_research(has_key, out) ==
  IF ~has_key THEN [exc |-> FALSE, val |-> EmptyResearch]
  ELSE CASE out.kind = "ok" -> [exc |-> FALSE, val |-> out.json]
         [] out.kind = "non200" -> [exc |-> FALSE, val |-> EmptyResearch]
         [] OTHER -> [exc |-> TRUE, val |-> EmptyResearch]

\* the thinking text without the placeholder: an empty text when the answer
\* has no choices
thinking_of_no_placeholder(research_output) ==
  IF "choices" \notin research_output.keys
  THEN [exc |-> FALSE, val |-> <<"">>]
  ELSE IF ~research_output.has_choice
       THEN [exc |-> TRUE, val |-> <<>>]
       ELSE [exc |-> FALSE, val |-> research_output.choices]

\* research_output.get('choices', [{}])[0].get('message', {}).get('content', ...)
\* raises IndexError on an empty choices list
thinking_of(research_output) ==
  IF "choices" \notin research_output.keys
  THEN [exc |-> FALSE, val |-> DefaultThinking]
  ELSE IF ~research_output.has_choice
       THEN [exc |-> TRUE, val |-> <<>>]
       ELSE [exc |-> FALSE, val |-> research_output.choices]

\* research_output.get('citations', [])
citations_of(research_output) ==
  IF "citations" \in research_output.keys THEN research_output.citations ELSE <<>>

\* main(): the deep-research stage; an exception reaches the except of main()
DeepResearch ==
  /\ pc = "research"
  /\ \E out \in ResearchOutcomes :
       LET r == deep_research(keys["PERPLEXITY_API_KEY"], out)
           t == thinking_of(r.val)
       IN  /\ (~keys["PERPLEXITY_API_KEY"] => out.kind = "non200")
           /\ last' = Outcome("research",
                              IF keys["PERPLEXITY_API_KEY"] THEN out.kind ELSE "no_key",
                              r.val)
           /\ failed' = IF ~keys["PERPLEXITY_API_KEY"] THEN failed
                        ELSE CASE out.kind = "non200" -> failed \cup {"research_empty"}
                               [] out.kind = "exception" -> failed \cup {"research_raise"}
                               [] OTHER -> IF out.json = NoChoiceResearch
                                           THEN failed \cup {"research_raise"}
                                           ELSE failed
           /\ IF r.exc \/ t.exc
              THEN /\ errors' = errors \cup {"Error during analysis"}
                   /\ pc' = "aborted"
                   /\ UNCHANGED <<deep_thinking, citation_urls>>
              ELSE /\ errors' = IF keys["PERPLEXITY_API_KEY"] THEN errors
                                ELSE errors \cup {"PERPLEXITY_API_KEY is not set in Streamlit secrets"}
                   /\ deep_thinking' = t.val
                   /\ citation_urls' = citations_of(r.val)
                   /\ pc' = "init_analyzer"
  /\ research_calls' = research_calls + 1
  /\ UNCHANGED <<contexts, doc, doc_analysis, research_content, pdf_args, pdf>>
  /\ UNCHANGED <<keys, search_query, auto_generate, faults, attempt, requests,
                 slept, serp_data, analyzer, url_idx, attempted,
                 scraped_content, competitor_data, citation_data,
                 enhanced_outline, research_report, blog_content, displayed>>

\* ------------------------------------------ analyzer.py: construction, scraping
\* the intents and secondary keywords (after split(',') and strip()) entered
\* in the runs explored
RunIntents == {"informational"}

KeywordInputs == {<<"cement", "sand">>}

\* the analysis faults the runs explored are exposed to (ScrapeSpec below
\* explores every set of faults)
RunFaults == {{}}

\* set_content_parameters
set_content_parameters(a, intent, keywords) ==
  [a EXCEPT !.article_intent = intent, !.secondary_keywords = keywords]

\* competitor_urls = [result['link'] for result in organic_results[:5]]
competitor_urls ==
  IF "organic_results" \in serp_data.keys
  THEN Take(serp_data.organic_results, TopCompetitors) ELSE <<>>

\* main(): build the analyzer, set the content parameters, start scraping the
\* competitors.  FirecrawlApp(api_key="") is library code: it may refuse an
\* empty key, and that exception reaches the except of main().
InitAnalyzer ==
  /\ pc = "init_analyzer"
  /\ \E ctor_raises \in (IF keys["FIRECRAWL_API_KEY"] THEN {FALSE} ELSE BOOLEAN),
        intent \in RunIntents, kw \in KeywordInputs, f \in RunFaults :
       IF ctor_raises
       THEN /\ errors' = errors \cup {"Error during analysis"}
            /\ pc' = "aborted"
            /\ last' = Outcome("ctor", "exception", <<>>)
            /\ UNCHANGED <<analyzer, faults, url_idx>>
       ELSE /\ analyzer' = set_content_parameters(analyzer, intent, kw)
            /\ faults' = f
            /\ errors' = errors
            /\ url_idx' = 1
            /\ pc' = "comp_attempt"
            /\ last' = Outcome("ctor", "ok", <<>>)
  /\ attempt' = 0
  /\ requests' = 0
  /\ slept' = 0
  /\ attempted' = {}
  /\ scraped_content' = <<>>
  /\ UNCHANGED <<research_calls, contexts, doc, doc_analysis, research_content, pdf_args, pdf>>
  /\ UNCHANGED <<keys, search_query, auto_generate, serp_data, deep_thinking,
                 citation_urls, competitor_data, citation_data,
                 enhanced_outline, research_report, blog_content, displayed,
                 failed>>

\* what one firecrawl.scrape_url call ends in; without a key the provider
\* rejects every call
ScrapeOutcomes ==
  {[kind |-> "exception", result |-> [keys |-> {}, html |-> DocEmpty, markdown |-> DocEmpty]]}
  \cup (IF keys["FIRECRAWL_API_KEY"]
        THEN {[kind |-> "ok", result |-> r] : r \in ScrapeResults}
        ELSE {})

\* the profile appended for a scraped URL
Profile(url, content, analysis) ==
  [url |-> url, content |-> content, analysis |-> analysis]

\* scrape_competitor_content appending an empty profile for a failed attempt
scrape_competitor_collect_placeholder(scraped, ok, profile) ==
  IF ok THEN Append(scraped, profile)
  ELSE Append(scraped, [profile EXCEPT !.content = DocEmpty, !.analysis = EmptyAnalysis])

\* the profile of a scraped URL put in front of the list
scrape_competitor_collect_prepend(scraped, ok, profile) ==
  IF ok THEN <<profile>> \o scraped ELSE scraped

\* scraped_content after one attempt of scrape_competitor_content: the profile
\* is appended when the attempt succeeded
scrape_competitor_collect(scraped, ok, profile) ==
  IF ok THEN Append(scraped, profile) ELSE scraped

\* scrape_competitor_content giving a URL up one attempt too late
scrape_competitor_after_four(ok, a) ==
  IF ok THEN "break"
  ELSE IF a = ScrapeMaxRetries THEN "give_up" ELSE "sleep"

\* where the loops of scrape_competitor_content go after one attempt: break
\* on success, give the URL up after the last attempt, sleep otherwise
scrape_competitor_after(ok, a) ==
  IF ok THEN "break"
  ELSE IF a = ScrapeMaxRetries - 1 THEN "give_up" ELSE "sleep"

\* one attempt of scrape_competitor_content for the URL at url_idx
scrape_competitor_attempt ==
  /\ pc = "comp_attempt"
  /\ url_idx <= Len(competitor_urls)
  /\ \E out \in ScrapeOutcomes :
       LET url == competitor_urls[url_idx]
           content == ResultContent(out.result)
           analysis == analyze_content(content, faults)
           ok == out.kind = "ok" /\ ~analysis.exc
           next == scrape_competitor_after(ok, attempt)
       IN  /\ attempted' = attempted \cup {url_idx}
           /\ scraped_content' =
                scrape_competitor_collect(scraped_content, ok, Profile(url, content, analysis.val))
           /\ last' = Outcome("scrape", out.kind, out.result)
           /\ failed' = IF next = "give_up" /\ keys["FIRECRAWL_API_KEY"]
                        THEN failed \cup {"competitor"} ELSE failed
           /\ requests' = IF attempt = 0 THEN 1 ELSE requests + 1
           /\ IF next = "sleep"
              THEN /\ pc' = "comp_sleep"
                   /\ UNCHANGED <<url_idx, attempt>>
              ELSE /\ pc' = "comp_attempt"
                   /\ url_idx' = url_idx + 1
                   /\ attempt' = 0
  /\ slept' = 0
  /\ UNCHANGED <<research_calls, contexts, doc, doc_analysis, research_content, pdf_args, pdf>>
  /\ UNCHANGED <<keys, search_query, auto_generate, faults, serp_data,
                 deep_thinking, citation_urls, analyzer, competitor_data,
                 citation_data, enhanced_outline, research_report,
                 blog_content, displayed, errors>>

\* time.sleep(5) in the except branch, then the next attempt for the same URL
scrape_competitor_sleep ==
  /\ pc = "comp_sleep"
  /\ slept' = ScrapeDelay
  /\ attempt' = attempt + 1
  /\ pc' = "comp_attempt"
  /\ UNCHANGED <<research_calls, contexts, doc, doc_analysis, research_content, pdf_args, pdf>>
  /\ UNCHANGED <<keys, search_query, auto_generate, faults, requests, serp_data,
                 deep_thinking, citation_urls, analyzer, url_idx, attempted,
                 scraped_content, competitor_data, citation_data,
                 enhanced_outline, research_report, blog_content, displayed,
                 errors, last, failed>>

\* "return scraped_content", and main(): "if citation_urls: ... else:
\* citation_data = []"
scrape_competitor_return ==
  /\ pc = "comp_attempt"
  /\ url_idx > Len(competitor_urls)
  /\ competitor_data' = scraped_content
  /\ scraped_content' = <<>>
  /\ attempted' = {}
  /\ attempt' = 0
  /\ requests' = 0
  /\ slept' = 0
  /\ IF citation_urls # <<>>
     THEN /\ url_idx' = 1
          /\ pc' = "cite_attempt"
     ELSE /\ url_idx' = 0
          /\ pc' = "generate"
  /\ citation_data' = <<>>
  /\ UNCHANGED <<research_calls, contexts, doc, doc_analysis, research_content, pdf_args, pdf>>
  /\ UNCHANGED <<keys, search_query, auto_generate, faults, serp_data,
                 deep_thinking, citation_urls, analyzer, enhanced_outline,
                 research_report, blog_content, displayed, errors, last, failed>>

\* citation_content after one attempt of scrape_citations
scrape_citations_collect(scraped, ok, profile) ==
  IF ok THEN Append(scraped, profile) ELSE scraped

\* where the loops of scrape_citations go after one attempt
scrape_citations_after(ok, a) ==
  IF ok THEN "break"
  ELSE IF a = ScrapeMaxRetries - 1 THEN "give_up" ELSE "sleep"

\* one attempt of scrape_citations for the URL at url_idx
scrape_citations_attempt ==
  /\ pc = "cite_attempt"
  /\ url_idx <= Len(citation_urls)
  /\ \E out \in ScrapeOutcomes :
       LET url == citation_urls[url_idx]
           content == ResultContent(out.result)
           analysis == analyze_content(content, faults)
           ok == out.kind = "ok" /\ ~analysis.exc
           next == scrape_citations_after(ok, attempt)
       IN  /\ attempted' = attempted \cup {url_idx}
           /\ scraped_content' =
                scrape_citations_collect(scraped_content, ok, Profile(url, content, analysis.val))
           /\ last' = Outcome("scrape", out.kind, out.result)
           /\ failed' = IF next = "give_up" /\ keys["FIRECRAWL_API_KEY"]
                        THEN failed \cup {"citation"} ELSE failed
           /\ requests' = IF attempt = 0 THEN 1 ELSE requests + 1
           /\ IF next = "sleep"
              THEN /\ pc' = "cite_sleep"
                   /\ UNCHANGED <<url_idx, attempt>>
              ELSE /\ pc' = "cite_attempt"
                   /\ url_idx' = url_idx + 1
                   /\ attempt' = 0
  /\ slept' = 0
  /\ UNCHANGED <<research_calls, contexts, doc, doc_analysis, research_content, pdf_args, pdf>>
  /\ UNCHANGED <<keys, search_query, auto_generate, faults, serp_data,
                 deep_thinking, citation_urls, analyzer, competitor_data,
                 citation_data, enhanced_outline, research_report,
                 blog_content, displayed, errors>>

\* time.sleep(5) in the except branch of scrape_citations
scrape_citations_sleep ==
  /\ pc = "cite_sleep"
  /\ slept' = ScrapeDelay
  /\ attempt' = attempt + 1
  /\ pc' = "cite_attempt"
  /\ UNCHANGED <<research_calls, contexts, doc, doc_analysis, research_content, pdf_args, pdf>>
  /\ UNCHANGED <<keys, search_query, auto_generate, faults, requests, serp_data,
                 deep_thinking, citation_urls, analyzer, url_idx, attempted,
                 scraped_content, competitor_data, citation_data,
                 enhanced_outline, research_report, blog_content, displayed,
                 errors, last, failed>>

\* "return citation_content"
scrape_citations_return ==
  /\ pc = "cite_attempt"
  /\ url_idx > Len(citation_urls)
  /\ citation_data' = scraped_content
  /\ scraped_content' = <<>>
  /\ attempted' = {}
  /\ attempt' = 0
  /\ requests' = 0
  /\ slept' = 0
  /\ url_idx' = 0
  /\ pc' = "generate"
  /\ UNCHANGED <<research_calls, contexts, doc, doc_analysis, research_content, pdf_args, pdf>>
  /\ UNCHANGED <<keys, search_query, auto_generate, faults, serp_data,
                 deep_thinking, citation_urls, analyzer, competitor_data,
                 enhanced_outline, research_report, blog_content, displayed,
                 errors, last, failed>>

\* ------------------------------------------- analyzer.py: outline and report
\* the values datetime.now() takes while the artifacts are generated, in
\* seconds from the time the outline is formatted
Clock == 0..1

strftime(c) == "2025-01-01 10:00:0" \o ToString(c)

\* str(v) inside an f-string
Str(v) == IF v.none THEN <<"None">> ELSE v.text


RECURSIVE Join(_, _)
\* sep.join(parts), each part a text
Join(parts, sep) ==
  IF parts = <<>> THEN <<>>
  ELSE IF Len(parts) = 1 THEN Head(parts)
  ELSE Head(parts) \o <<sep>> \o Join(Tail(parts), sep)

\* what one chat.completions.create call of get_llm_analysis ends in: an
\* exception (always, without a key), an answer text, a None content, an
\* empty choices list
LlmOutcomes ==
  {[kind |-> "exception", content |-> NoText]}
  \cup (IF keys["OPENAI_API_KEY"]
        THEN {[kind |-> "ok", content |-> Text(<<"Primary keyword: ...">>)],
              [kind |-> "ok", content |-> NoText],
              [kind |-> "no_choices", content |-> NoText]}
        ELSE {})

\* get_llm_analysis returning None from its except branch
get_llm_analysis_none(out) ==
  IF out.kind = "ok" THEN out.content ELSE NoText

\* get_llm_analysis: the content of the first choice, "" on any exception
get_llm_analysis(out) ==
  IF out.kind = "ok" THEN out.content ELSE Text(<<"">>)

\* serp_data.get('search_parameters', {}).get('q', '')
QueryOf(d) == IF "search_parameters" \in d.keys THEN d.q ELSE ""

\* format_llm_outline: header restating the query, the LLM text, footer
format_llm_outline(llm_output, d, now) ==
  <<"SEO Article Outline for: \"", QueryOf(d), "\"\n\n">>
  \o Str(llm_output)
  \o <<"\n\nGenerated on: ", strftime(now), "\n">>

\* one summary of format_competitor_content / format_citation_data
Summary(p) ==
  LET wc == IF "word_count" \in p.analysis.keys THEN p.analysis.word_count ELSE 0
      topics == IF "key_topics" \in p.analysis.keys
                THEN Take(p.analysis.key_topics, 5) ELSE <<>>
  IN  <<"URL: ", p.url, "\nWord Count: ", ToString(wc), "\nKey Topics: ">>
      \o Join([i \in DOMAIN topics |-> <<topics[i]>>], ", ")

\* format_competitor_content
format_competitor_content(scraped_data) ==
  Join([i \in DOMAIN scraped_data |-> Summary(scraped_data[i])], "\n\n")

\* generate_enhanced_outline: the model call, then the wrapper
generate_enhanced_outline(d, out, now) ==
  format_llm_outline(get_llm_analysis(out), d, now)

\* the title line of the research report
ReportHeader == "=== Research Report ==="

\* the line that starts the competitor summary of the research report
SummaryMarker == "--- Competitor Content Analysis Summary ---"

\* generate_research_report
generate_research_report(thinking, scraped_data, now) ==
  <<ReportHeader, "\n\n", "Deep Research Thinking Process:", "\n">>
  \o thinking
  \o <<"\n\n", SummaryMarker, "\n">>
  \o format_competitor_content(scraped_data)
  \o <<"\n\n", "Generated on: ", strftime(now), "\n">>

\* ------------------------------------------- analyzer.py: context assembly
\* format_top_articles: results[:5]
TopArticles == 5

\* the title the search provider gives for the result with this link
Title(link) == "Article at " \o link

\* extract_organic_results: title and link of every organic result
extract_organic_results(data) ==
  IF "organic_results" \in data.keys
  THEN [i \in DOMAIN data.organic_results |->
          [title |-> Title(data.organic_results[i]), link |-> data.organic_results[i]]]
  ELSE <<>>

\* extract_paa_questions
extract_paa_questions(data) ==
  IF "related_questions" \in data.keys
  THEN [i \in DOMAIN data.related_questions |-> [question |-> data.related_questions[i]]]
  ELSE <<>>

\* extract_related_searches
extract_related_searches(data) ==
  IF "related_searches" \in data.keys
  THEN [i \in DOMAIN data.related_searches |-> [query |-> data.related_searches[i]]]
  ELSE <<>>

\* extract_serp_data
extract_serp_data(data) ==
  [organic_results |-> extract_organic_results(data),
   paa_questions |-> extract_paa_questions(data),
   related_searches |-> extract_related_searches(data)]

\* The formatters of prepare_llm_context that may raise.  The first four
\* return "" from their except branch; format_citation_data has none.
Formatters == {"top_articles", "paa", "related", "competitor", "citations"}

\* format_top_articles without the [:5] slice
format_top_articles_all(results, F) ==
  IF "top_articles" \in F THEN <<>>
  ELSE Join([i \in DOMAIN results |->
               <<"- ", results[i].title, " (URL: ", results[i].link, ")">>], "\n")

\* format_top_articles: one line per result of the first five
format_top_articles(results, F) ==
  IF "top_articles" \in F THEN <<>>
  ELSE Join([i \in DOMAIN Take(results, TopArticles) |->
               <<"- ", results[i].title, " (URL: ", results[i].link, ")">>], "\n")

\* format_paa_questions: one line per question
format_paa_questions(questions, F) ==
  IF "paa" \in F THEN <<>>
  ELSE Join([i \in DOMAIN questions |-> <<"- ", questions[i].question>>], "\n")

\* format_related_searches: one line per related search
format_related_searches(searches, F) ==
  IF "related" \in F THEN <<>>
  ELSE Join([i \in DOMAIN searches |-> <<"- ", searches[i].query>>], "\n")

\* format_citation_data: the summaries of the citation profiles; an exception
\* leaves the function
format_citation_data(citation_data_, F) ==
  IF "citations" \in F THEN [exc |-> TRUE, val |-> <<>>]
  ELSE [exc |-> FALSE,
        val |-> Join([i \in DOMAIN citation_data_ |-> Summary(citation_data_[i])], "\n\n")]

\* the section labels of the template of prepare_llm_context, in its order
ContextLabels ==
  <<"Search Query: ", "Content Parameters:", "Article Intent: ",
    "Secondary Keywords: ", "--- Top Ranking Articles ---",
    "--- People Also Ask Questions ---", "--- Related Searches ---",
    "--- Competitor Content Analysis ---",
    "--- Deep Research Thinking Process ---",
    "--- Citation Content from Deep Research ---">>

\* a section of the template that leaves the label out when the body is empty
context_section_skip_empty(label, body) ==
  IF body = <<>> THEN <<>> ELSE <<"\n\n", label, "\n">> \o body

\* one "--- label ---" section of the template: blank line, label, body
context_section(label, body) == <<"\n\n", label, "\n">> \o body

\* a context that ends with the time of the call, as the outline does
context_footer_stamped(a) == <<"\n", "Generated on: ", strftime(Len(contexts)), "\n">>

\* the end of the template: nothing follows the citation section
context_footer(a) == <<"\n">>

\* prepare_llm_context: the f-string template filled with the formatted
\* sections and with the content parameters of the analyzer
prepare_llm_context(a, scraped_data, d, thinking, citation_data_, F) ==
  LET serp_analysis == extract_serp_data(d)
      citations_formatted == format_citation_data(citation_data_, F)
      competitors == IF "competitor" \in F THEN <<>>
                     ELSE format_competitor_content(scraped_data)
  IN  [exc |-> citations_formatted.exc,
       val |->
         <<"\n", "Search Query: ", QueryOf(d), "\n\n", "Content Parameters:", "\n",
           "Article Intent: ", a.article_intent, "\n", "Secondary Keywords: ">>
         \o Join([i \in DOMAIN a.secondary_keywords |-> <<a.secondary_keywords[i]>>], ", ")
         \o context_section("--- Top Ranking Articles ---",
                            format_top_articles(serp_analysis.organic_results, F))
         \o context_section("--- People Also Ask Questions ---",
                            format_paa_questions(serp_analysis.paa_questions, F))
         \o context_section("--- Related Searches ---",
                            format_related_searches(serp_analysis.related_searches, F))
         \o context_section("--- Competitor Content Analysis ---", competitors)
         \o context_section("--- Deep Research Thinking Process ---", thinking)
         \o context_section("--- Citation Content from Deep Research ---",
                            citations_formatted.val)
         \o context_footer(a)]

\* the record kept of one call of prepare_llm_context
ContextCall(a, scraped_data, d, thinking, citation_data_, F) ==
  LET r == prepare_llm_context(a, scraped_data, d, thinking, citation_data_, F)
  IN  [scraped_data |-> scraped_data, serp_data |-> d, deep_thinking |-> thinking,
       citation_data |-> citation_data_, article_intent |-> a.article_intent,
       secondary_keywords |-> a.secondary_keywords, exc |-> r.exc,
       text |-> IF r.exc THEN <<>> ELSE r.val]

\* main(): "Generate outputs"
GenerateOutputs ==
  /\ pc = "generate"
  /\ \E context \in {prepare_llm_context(analyzer, competitor_data, serp_data,
                                           deep_thinking, citation_data, faults)} :
         /\ contexts' = contexts
         /\ IF context.exc
            THEN /\ errors' = errors \cup {"Error during analysis"}
                 /\ pc' = "aborted"
                 /\ UNCHANGED <<enhanced_outline, research_report, last, failed>>
            ELSE /\ \E out \in LlmOutcomes, t2 \in Clock :
                      /\ enhanced_outline' = Text(generate_enhanced_outline(serp_data, out, 0))
                      /\ research_report' =
                           Text(generate_research_report(deep_thinking, competitor_data, t2))
                      /\ last' = Outcome("llm", out.kind, out.content)
                      /\ failed' = IF out.kind # "ok" /\ keys["OPENAI_API_KEY"]
                                   THEN failed \cup {"outline"} ELSE failed
                 /\ errors' = errors
                 /\ pc' = "blog_auto"
  /\ UNCHANGED <<research_calls, doc, doc_analysis, research_content, pdf_args, pdf>>
  /\ UNCHANGED <<keys, search_query, auto_generate, faults, attempt, requests,
                 slept, serp_data, deep_thinking, citation_urls, analyzer,
                 url_idx, attempted, scraped_content, competitor_data,
                 citation_data, blog_content, displayed>>

\* ----------------------------------- main_streamlit.py: research excerpt
\* the delimiters of the reasoning part of a deep-research answer
ThinkOpen == "<think>"

ThinkClose == "</think>"

\* pieces that are white space only
IsSpace(x) == x \in {" ", "\n", "\n\n"}

RECURSIVE LStrip(_)
LStrip(t) == IF t # <<>> /\ IsSpace(Head(t)) THEN LStrip(Tail(t)) ELSE t

RECURSIVE RStrip(_)
RStrip(t) ==
  IF t # <<>> /\ IsSpace(t[Len(t)]) THEN RStrip(SubSeq(t, 1, Len(t) - 1)) ELSE t

\* str.strip()
Strip(t) == CHOOSE s \in {RStrip(l) : l \in {LStrip(t)}} : TRUE

RECURSIVE sub_think(_)
\* re.sub(r'<think>.*?</think>', '', text, flags=re.DOTALL): every opening
\* tag that has a closing tag after it is removed up to the first such tag
sub_think(t) ==
  IF t = <<>> THEN <<>>
  ELSE LET closes == {i \in 2..Len(t) : t[i] = ThinkClose}
       IN  IF Head(t) = ThinkOpen /\ closes # {}
           THEN LET c == CHOOSE i \in closes : \A j \in closes : i <= j
                IN  sub_think(SubSeq(t, c + 1, Len(t)))
           ELSE <<Head(t)>> \o sub_think(Tail(t))

\* the first step of extract_research_content: the substitution is applied
\* only when both tags occur in the text
remove_thinking(t) ==
  IF ThinkOpen \in Range(t) /\ ThinkClose \in Range(t) THEN sub_think(t) ELSE t

\* extract_research_content: thinking spans removed, title line removed, the
\* text cut at the first summary marker, stripped; a None argument makes the
\* function return its argument from the except branch.  Each intermediate
\* text is bound as the element of a one-element set, so that it is computed
\* once.
extract_research_content(research_text) ==
  IF research_text.none THEN research_text
  ELSE CHOOSE content \in
         {Text(Strip(t3)) :
            t3 \in {IF SummaryMarker \in Range(t2)
                    THEN Strip(SubSeq(t2, 1, FirstIdx(t2, SummaryMarker) - 1))
                    ELSE t2 :
                      t2 \in {SelectSeq(t1, LAMBDA x : x # ReportHeader) :
                                t1 \in {remove_thinking(research_text.text)}}}} : TRUE

\* ------------------------------------------- main_streamlit.py: blog and tabs
Block(t) == [has_text |-> TRUE, text |-> t]

NoTextBlock == [has_text |-> FALSE, text |-> ""]

\* what client.messages.create ends in: an exception, None, or a message
\* with a content list
BlogOutcomes ==
  {[kind |-> "exception", none |-> TRUE, content |-> <<>>],
   [kind |-> "ok", none |-> TRUE, content |-> <<>>],
   [kind |-> "ok", none |-> FALSE, content |-> <<>>],
   [kind |-> "ok", none |-> FALSE, content |-> <<NoTextBlock>>],
   [kind |-> "ok", none |-> FALSE, content |-> <<Block("")>>],
   [kind |-> "ok", none |-> FALSE, content |-> <<Block("# Blog"), Block("more")>>]}

\* generate_blog_content returning "" when the model gave no content
generate_blog_content_degrade(has_key, out) ==
  IF ~has_key THEN [exc |-> TRUE, val |-> <<>>]
  ELSE IF out.kind # "ok" THEN [exc |-> TRUE, val |-> <<>>]
  ELSE IF out.none \/ out.content = <<>> THEN [exc |-> FALSE, val |-> <<"">>]
  ELSE IF ~out.content[1].has_text THEN [exc |-> TRUE, val |-> <<>>]
  ELSE [exc |-> FALSE, val |-> <<out.content[1].text>>]

\* generate_blog_content: raises without a key, when the call raises, on no
\* message or an empty content list, and when the first block has no text
generate_blog_content(has_key, out) ==
  IF ~has_key THEN [exc |-> TRUE, val |-> <<>>]
  ELSE IF out.kind # "ok" THEN [exc |-> TRUE, val |-> <<>>]
  ELSE IF out.none \/ out.content = <<>> THEN [exc |-> TRUE, val |-> <<>>]
  ELSE IF ~out.content[1].has_text THEN [exc |-> TRUE, val |-> <<>>]
  ELSE [exc |-> FALSE, val |-> <<out.content[1].text>>]

\* main(): "if auto_generate and ANTHROPIC_API_KEY"; an exception of
\* generate_blog_content reaches the except of main()
AutoBlog ==
  /\ pc = "blog_auto"
  /\ IF auto_generate /\ keys["ANTHROPIC_API_KEY"]
     THEN \E out \in BlogOutcomes :
            LET r == generate_blog_content(keys["ANTHROPIC_API_KEY"], out)
            IN  /\ last' = Outcome("blog", out.kind, out)
                /\ IF r.exc
                   THEN /\ errors' = errors \cup {"Error during analysis"}
                        /\ pc' = "aborted"
                        /\ blog_content' = NoText
                        /\ failed' = failed \cup {"blog"}
                   ELSE /\ errors' = errors
                        /\ pc' = "display"
                        /\ blog_content' = Text(r.val)
                        /\ failed' = failed
     ELSE /\ errors' = errors
          /\ pc' = "display"
          /\ blog_content' = NoText
          /\ UNCHANGED <<last, failed>>
  /\ research_content' = IF auto_generate /\ keys["ANTHROPIC_API_KEY"]
                       THEN extract_research_content(research_report)
                       ELSE research_content
  /\ UNCHANGED <<research_calls, contexts, doc, doc_analysis, pdf_args, pdf>>
  /\ UNCHANGED <<keys, search_query, auto_generate, faults, attempt, requests,
                 slept, serp_data, deep_thinking, citation_urls, analyzer,
                 url_idx, attempted, scraped_content, competitor_data,
                 citation_data, enhanced_outline, research_report, displayed>>

\* main(): the three tabs with their download buttons
DisplayTabs ==
  /\ pc = "display"
  /\ displayed' = {"outline", "report"}
                  \cup (IF Truthy(blog_content) THEN {"blog"} ELSE {})
  /\ errors' = IF ~Truthy(blog_content) /\ auto_generate
               THEN errors \cup {"Content generation failed or was not attempted"}
               ELSE errors
  /\ pc' = "shown"
  /\ UNCHANGED <<research_calls, contexts, doc, doc_analysis, research_content, pdf_args, pdf>>
  /\ UNCHANGED <<keys, search_query, auto_generate, faults, attempt, requests,
                 slept, serp_data, deep_thinking, citation_urls, analyzer,
                 url_idx, attempted, scraped_content, competitor_data,
                 citation_data, enhanced_outline, research_report,
                 blog_content, last, failed>>

\* the "Generate Blog Content" button of the third tab, offered when the blog
\* was not generated automatically; its own try/except reports a failure
ManualBlog ==
  /\ pc = "shown"
  /\ ~pdf_args.called
  /\ ~Truthy(blog_content)
  /\ ~auto_generate
  /\ \E out \in BlogOutcomes :
       LET r == generate_blog_content(keys["ANTHROPIC_API_KEY"], out)
       IN  /\ (~keys["ANTHROPIC_API_KEY"] => out.kind = "exception")
           /\ last' = Outcome("blog", IF keys["ANTHROPIC_API_KEY"] THEN out.kind ELSE "no_key", out)
           /\ IF r.exc
              THEN /\ errors' = errors \cup {"Error during content generation"}
                   /\ failed' = IF keys["ANTHROPIC_API_KEY"] THEN failed \cup {"blog"}
                                ELSE failed
                   /\ UNCHANGED <<blog_content, displayed>>
              ELSE /\ blog_content' = Text(r.val)
                   /\ failed' = failed
                   /\ IF Truthy(Text(r.val))
                      THEN /\ displayed' = displayed \cup {"blog"}
                           /\ errors' = errors
                      ELSE /\ displayed' = displayed
                           /\ errors' = errors \cup {"No content was generated"}
  /\ pc' = "finished"
  /\ research_content' = extract_research_content(research_report)
  /\ UNCHANGED <<research_calls, contexts, doc, doc_analysis, pdf_args, pdf>>
  /\ UNCHANGED <<keys, search_query, auto_generate, faults, attempt, requests,
                 slept, serp_data, deep_thinking, citation_urls, analyzer,
                 url_idx, attempted, scraped_content, competitor_data,
                 citation_data, enhanced_outline, research_report>>

\* ------------------------------------ main_streamlit.py: create_combined_pdf
\* pdf.set_font('Arial', 'B', 16) of a section title
TitleSize == 16

\* pdf.set_font('Arial', '', 12) of the body text
BodySize == 12

\* pdf.set_font('Arial', 'B', 14 - level) of a heading line
HeadingBase == 14

\* A line of a document: "lead" is the number of '#' the stripped line starts
\* with, "hashes" the number of '#' in the whole line (line.count('#')),
\* "body" its text without the leading '#'.
Line(lead, hashes, body) == [lead |-> lead, hashes |-> hashes, body |-> body]

EmptyLine == Line(0, 0, "")

\* the lines "body text", "# Title", "## Section", "# C# basics" and a line
\* with a character outside latin-1
PdfLines ==
  {Line(0, 0, "body text"), Line(1, 1, "Title"), Line(2, 2, "Section"),
   Line(1, 2, "C# basics"), Line(0, 0, "tea [U+2615]")}

\* the strings that have a character outside latin-1
NonLatin1 == {"tea [U+2615]", "ratios [U+6BD4]"}

\* s.encode('latin-1', 'replace').decode('latin-1')
encode_replace(str) ==
  CASE str = "tea [U+2615]" -> "tea ?"
    [] str = "ratios [U+6BD4]" -> "ratios ?"
    [] OTHER -> str

\* "if blog_content:" with a blog of a single empty line
has_blog_section_not_none(blog) == ~blog.none

\* "if blog_content:" of create_combined_pdf: neither None nor ""
has_blog_section(blog) == ~blog.none /\ blog.text # <<EmptyLine>>

\* an exception in the processing of a line leaving create_combined_pdf
on_line_error_abort(section) == "raise"

\* "except Exception as e: print(...); continue" of the three line loops
on_line_error(section) == "continue"

\* what was drawn on the document, or [op |-> "add_page"]
PdfOp(op, section, idx, style, size, text, line) ==
  [op |-> op, section |-> section, idx |-> idx, style |-> style, size |-> size,
   text |-> text, line |-> line]

\* pdf.add_page(), the centred section title, pdf.set_font('Arial', '', 12)
start_section(p, section, title) ==
  [p EXCEPT !.ops = @ \o <<PdfOp("add_page", section, 0, "", 0, "", EmptyLine),
                           PdfOp("title", section, 0, "B", TitleSize, title, EmptyLine)>>,
            !.font = [style |-> "", size |-> BodySize],
            !.line = 1]

\* the body of a line loop for line number idx: a heading line (in the
\* sections that look for them) is drawn by cell() in bold at 14 - level and
\* the body font is set again afterwards; any other line is drawn by
\* multi_cell() in the font in force.  When the drawing call raises, the line
\* is logged and skipped; the font is then the one set before the call.
render_line(p, section, headings, idx, line, raises) ==
  LET heading == headings /\ line.lead > 0
      font == IF heading THEN [style |-> "B", size |-> HeadingBase - line.hashes]
              ELSE p.font
      drawn == PdfOp(IF heading THEN "cell" ELSE "multi_cell", section, idx,
                     font.style, font.size, encode_replace(line.body), line)
  IN  IF raises
      THEN [p EXCEPT !.font = font,
                     !.log = Append(@, [section |-> section, idx |-> idx]),
                     !.line = idx + 1]
      ELSE [p EXCEPT !.font = IF heading THEN [style |-> "", size |-> BodySize] ELSE font,
                     !.ops = Append(@, drawn),
                     !.line = idx + 1]

\* PDF(), set_auto_page_break, the first add_page: the page header draws the
\* query, and a query with a character outside latin-1 makes cell() raise,
\* which leaves create_combined_pdf through its outer except
create_combined_pdf_begin ==
  /\ pc = "pdf_begin"
  /\ IF pdf_args.query \in NonLatin1
     THEN /\ pc' = "pdf_failed"
          /\ pdf' = pdf
          /\ last' = Outcome("pdf", "header", <<>>)
     ELSE /\ pc' = "pdf_outline"
          /\ pdf' = start_section(NoPdf, "outline", "SEO Outline")
          /\ last' = Outcome("pdf", "none", <<>>)
  /\ UNCHANGED <<research_calls, contexts, doc, doc_analysis, research_content, pdf_args>>
  /\ UNCHANGED <<keys, search_query, auto_generate, faults, attempt, requests,
                 slept, serp_data, deep_thinking, citation_urls, analyzer,
                 url_idx, attempted, scraped_content, competitor_data,
                 citation_data, enhanced_outline, research_report,
                 blog_content, displayed, errors, failed>>

\* one iteration of a line loop of create_combined_pdf
pdf_line(at, section, headings, lines) ==
  /\ pc = at
  /\ pdf.line <= Len(lines)
  /\ \E raises \in BOOLEAN :
       IF raises /\ on_line_error(section) = "raise"
       THEN /\ pc' = "pdf_failed"
            /\ pdf' = pdf
            /\ last' = Outcome("pdf", "line", <<>>)
       ELSE /\ pc' = pc
            /\ pdf' = render_line(pdf, section, headings, pdf.line, lines[pdf.line], raises)
            /\ last' = Outcome("pdf", IF raises THEN "line" ELSE "none", <<>>)
  /\ UNCHANGED <<research_calls, contexts, doc, doc_analysis, research_content, pdf_args>>
  /\ UNCHANGED <<keys, search_query, auto_generate, faults, attempt, requests,
                 slept, serp_data, deep_thinking, citation_urls, analyzer,
                 url_idx, attempted, scraped_content, competitor_data,
                 citation_data, enhanced_outline, research_report,
                 blog_content, displayed, errors, failed>>

\* "for line in outline.split('\n')": headings are looked for
pdf_outline_line == pdf_line("pdf_outline", "outline", TRUE, pdf_args.outline.text)

\* "for line in research.split('\n')": every line goes to multi_cell
pdf_research_line == pdf_line("pdf_research", "research", FALSE, pdf_args.research.text)

\* "for line in blog_content.split('\n')": headings are looked for
pdf_blog_line == pdf_line("pdf_blog", "blog", TRUE, pdf_args.blog_content.text)

\* after the outline loop: the page and the title of the research report
pdf_research_begin ==
  /\ pc = "pdf_outline"
  /\ pdf.line > Len(pdf_args.outline.text)
  /\ pdf' = start_section(pdf, "research", "Research Report")
  /\ pc' = "pdf_research"
  /\ UNCHANGED <<research_calls, contexts, doc, doc_analysis, research_content, pdf_args>>
  /\ UNCHANGED <<keys, search_query, auto_generate, faults, attempt, requests,
                 slept, serp_data, deep_thinking, citation_urls, analyzer,
                 url_idx, attempted, scraped_content, competitor_data,
                 citation_data, enhanced_outline, research_report,
                 blog_content, displayed, errors, last, failed>>

\* after the research loop: "if blog_content:" the page and the title of the
\* generated content
pdf_blog_begin ==
  /\ pc = "pdf_research"
  /\ pdf.line > Len(pdf_args.research.text)
  /\ IF has_blog_section(pdf_args.blog_content)
     THEN /\ pdf' = start_section(pdf, "blog", "Generated Blog Content")
          /\ pc' = "pdf_blog"
     ELSE /\ pdf' = pdf
          /\ pc' = "pdf_output"
  /\ UNCHANGED <<research_calls, contexts, doc, doc_analysis, research_content, pdf_args>>
  /\ UNCHANGED <<keys, search_query, auto_generate, faults, attempt, requests,
                 slept, serp_data, deep_thinking, citation_urls, analyzer,
                 url_idx, attempted, scraped_content, competitor_data,
                 citation_data, enhanced_outline, research_report,
                 blog_content, displayed, errors, last, failed>>

\* "return pdf.output(dest='S').encode('latin-1')": output() gives a str in
\* one FPDF library and a bytearray, which has no encode, in its successor;
\* the exception leaves create_combined_pdf through its outer except
pdf_output ==
  /\ \/ pc = "pdf_output"
     \/ pc = "pdf_blog" /\ pdf.line > Len(pdf_args.blog_content.text)
  /\ \E raises \in BOOLEAN :
       /\ pc' = IF raises THEN "pdf_failed" ELSE "pdf_done"
       /\ last' = Outcome("pdf", IF raises THEN "output" ELSE "bytes", <<>>)
  /\ UNCHANGED <<research_calls, contexts, doc, doc_analysis, research_content, pdf_args, pdf>>
  /\ UNCHANGED <<keys, search_query, auto_generate, faults, attempt, requests,
                 slept, serp_data, deep_thinking, citation_urls, analyzer,
                 url_idx, attempted, scraped_content, competitor_data,
                 citation_data, enhanced_outline, research_report,
                 blog_content, displayed, errors, failed>>

\* ------------------------------- main_streamlit.py: "Generate Combined PDF"
\* the blog argument of the call without the blog content
pdf_blog_argument_none(blog) == NoText

\* "blog_content if 'blog_content' in locals() else None": blog_content is
\* bound (to None at the least) before the tabs are drawn
pdf_blog_argument(blog) == blog

\* the "Generate Combined PDF" button under the tabs, which follows the third
\* tab in the script: create_combined_pdf is called with the artifacts of the
\* run; its result is handed to st.download_button, its exception is reported
\* by the except of the button
GeneratePdf ==
  /\ pc \in {"shown", "finished"}
  /\ ~pdf_args.called
  /\ pdf_args' = [called |-> TRUE, outline |-> enhanced_outline,
                  research |-> research_report,
                  blog_content |-> pdf_blog_argument(blog_content),
                  query |-> search_query]
  /\ \E raises \in BOOLEAN :
       IF raises
       THEN /\ errors' = errors \cup {"Error generating PDF"}
            /\ displayed' = displayed
       ELSE /\ displayed' = displayed \cup {"pdf"}
            /\ errors' = errors
  /\ UNCHANGED <<research_calls, contexts, doc, doc_analysis, research_content, pdf>>
  /\ UNCHANGED <<keys, search_query, auto_generate, faults, pc, attempt,
                 requests, slept, serp_data, deep_thinking, citation_urls,
                 analyzer, url_idx, attempted, scraped_content,
                 competitor_data, citation_data, enhanced_outline,
                 research_report, blog_content, last, failed>>

\* ------------------------------------------------------------- specification
Next ==
  \/ Sidebar
  \/ GenerateAnalysis
  \/ get_search_results_begin
  \/ get_search_results_attempt
  \/ get_search_results_sleep
  \/ SerpCheck
  \/ DeepResearch
  \/ InitAnalyzer
  \/ scrape_competitor_attempt
  \/ scrape_competitor_sleep
  \/ scrape_competitor_return
  \/ scrape_citations_attempt
  \/ scrape_citations_sleep
  \/ scrape_citations_return
  \/ GenerateOutputs
  \/ AutoBlog
  \/ DisplayTabs
  \/ ManualBlog
  \/ GeneratePdf

Spec == Init /\ [][Next]_vars

\* The scrapers alone, from the states in which main() calls
\* scrape_competitor_content, under every set of analysis faults.
InitScrape ==
  /\ keys = [k \in KeyNames |-> TRUE]
  /\ search_query = "concrete mixing ratios"
  /\ auto_generate = TRUE
  /\ faults \in SUBSET SubSteps
  /\ pc = "comp_attempt"
  /\ attempt = 0
  /\ requests = 0
  /\ slept = 0
  /\ serp_data \in {SerpJson(n, search_query) : n \in 1..MaxOrganic}
  /\ deep_thinking = ResearchJson(0).choices
  /\ citation_urls \in {ResearchJson(k).citations : k \in 0..MaxCitations}
  /\ analyzer = set_content_parameters([article_intent |-> "", secondary_keywords |-> <<>>],
                                       "informational", <<"cement", "sand">>)
  /\ url_idx = 1
  /\ attempted = {}
  /\ scraped_content = <<>>
  /\ competitor_data = <<>>
  /\ citation_data = <<>>
  /\ enhanced_outline = NoText
  /\ research_report = NoText
  /\ blog_content = NoText
  /\ displayed = {}
  /\ errors = {}
  /\ last = Outcome("ctor", "ok", <<>>)
  /\ failed = {}
  /\ contexts = <<>>
  /\ doc = DocEmpty
  /\ doc_analysis = EmptyAnalysis
  /\ research_content = NoText
  /\ pdf_args = NoPdfArgs
  /\ pdf = NoPdf
  /\ research_calls = 0

NextScrape ==
  \/ scrape_competitor_attempt
  \/ scrape_competitor_sleep
  \/ scrape_competitor_return
  \/ scrape_citations_attempt
  \/ scrape_citations_sleep
  \/ scrape_citations_return

ScrapeSpec == InitScrape /\ [][NextScrape]_vars

\* the analysis of the long page
LongProfileAnalysis == analyze_content(DocLong, {}).val

\* the profiles scrape_competitor_content returns for up to n URLs: of a long
\* page, or of a page whose analysis failed
ProfileLists(n) ==
  UNION {{[i \in 1..k |-> IF long[i]
                          THEN Profile(CompetitorUrl(i), DocLong, LongProfileAnalysis)
                          ELSE Profile(CompetitorUrl(i), DocNone, EmptyAnalysis)]
          : long \in [1..k -> BOOLEAN]} : k \in 0..n}

\* Context assembly alone: prepare_llm_context called up to MaxCalls times on
\* the same four arguments, set_content_parameters possibly called in between.
InitContext ==
  /\ keys = [k \in KeyNames |-> TRUE]
  /\ search_query = "concrete mixing ratios"
  /\ auto_generate = TRUE
  /\ faults \in {{}} \cup {{f} : f \in Formatters}
  /\ pc = "generate"
  /\ attempt = 0
  /\ requests = 0
  /\ slept = 0
  /\ serp_data \in {SerpPage(n, p, r, search_query) :
                      n \in {0, 3, TopArticles, MaxResults},
                      p \in 0..MaxQuestions, r \in 0..MaxRelated}
  /\ deep_thinking = ResearchJson(0).choices
  /\ citation_urls = <<>>
  /\ analyzer = [article_intent |-> "", secondary_keywords |-> <<>>]
  /\ url_idx = 0
  /\ attempted = {}
  /\ scraped_content = <<>>
  /\ competitor_data \in ProfileLists(MaxProfiles)
  /\ citation_data \in {[i \in 1..k |-> Profile(CitationUrl(i), DocLong, LongProfileAnalysis)]
                          : k \in 0..MaxCitations}
  /\ enhanced_outline = NoText
  /\ research_report = NoText
  /\ blog_content = NoText
  /\ displayed = {}
  /\ errors = {}
  /\ last = Outcome("none", "none", <<>>)
  /\ failed = {}
  /\ contexts = <<>>
  /\ doc = DocEmpty
  /\ doc_analysis = EmptyAnalysis
  /\ research_content = NoText
  /\ pdf_args = NoPdfArgs
  /\ pdf = NoPdf
  /\ research_calls = 0

\* analyzer.set_content_parameters(intent, keywords)
SetContentParameters ==
  /\ pc = "generate"
  /\ analyzer.article_intent = ""
  /\ \E intent \in RunIntents, kw \in KeywordInputs :
       analyzer' = set_content_parameters(analyzer, intent, kw)
  /\ UNCHANGED <<research_calls, contexts, doc, doc_analysis, research_content, pdf_args, pdf>>
  /\ UNCHANGED <<keys, search_query, auto_generate, faults, pc, attempt, requests,
                 slept, serp_data, deep_thinking, citation_urls, url_idx,
                 attempted, scraped_content, competitor_data, citation_data,
                 enhanced_outline, research_report, blog_content, displayed,
                 errors, last, failed>>

\* analyzer.prepare_llm_context(scraped_data, serp_data, deep_thinking, citation_data)
PrepareLlmContext ==
  /\ pc = "generate"
  /\ Len(contexts) < MaxCalls
  /\ contexts' = Append(contexts,
                        ContextCall(analyzer, competitor_data, serp_data,
                                    deep_thinking, citation_data, faults))
  /\ UNCHANGED <<research_calls, doc, doc_analysis, research_content, pdf_args, pdf>>
  /\ UNCHANGED <<keys, search_query, auto_generate, faults, pc, attempt, requests,
                 slept, serp_data, deep_thinking, citation_urls, analyzer,
                 url_idx, attempted, scraped_content, competitor_data,
                 citation_data, enhanced_outline, research_report,
                 blog_content, displayed, errors, last, failed>>

NextContext ==
  \/ SetContentParameters
  \/ PrepareLlmContext

ContextSpec == InitContext /\ [][NextContext]_vars

\* Content analysis alone: analyze_content applied to a page of sentences.
\* the sentences of the analysed pages: their words, and the match the phrase
\* pattern finds for them in the lower-cased text
Sentences ==
  {[words |-> <<"seo", "tips", "for">>, phrase |-> "seo tips for"],
   [words |-> <<"Seo", "tips", "for">>, phrase |-> "seo tips for"],
   [words |-> <<"tips", "for", "seo">>, phrase |-> "tips for seo"]}

\* the page "s1. s2. ..." of the sentences ss
SentenceDoc(ss) ==
  [none |-> FALSE,
   toks |-> [i \in 1..(3 * Len(ss)) |-> ss[(i + 2) \div 3].words[((i - 1) % 3) + 1]],
   phrases |-> [i \in DOMAIN ss |-> ss[i].phrase]]

AnalyzedDocs ==
  {DocLong} \cup UNION {{SentenceDoc(ss) : ss \in [1..k -> Sentences]} : k \in 0..MaxSentences}

InitAnalyze ==
  /\ keys = [k \in KeyNames |-> TRUE]
  /\ search_query = "concrete mixing ratios"
  /\ auto_generate = TRUE
  /\ faults = {}
  /\ pc = "analyze"
  /\ attempt = 0
  /\ requests = 0
  /\ slept = 0
  /\ serp_data = EmptyDict
  /\ deep_thinking = <<>>
  /\ citation_urls = <<>>
  /\ analyzer = [article_intent |-> "", secondary_keywords |-> <<>>]
  /\ url_idx = 0
  /\ attempted = {}
  /\ scraped_content = <<>>
  /\ competitor_data = <<>>
  /\ citation_data = <<>>
  /\ enhanced_outline = NoText
  /\ research_report = NoText
  /\ blog_content = NoText
  /\ displayed = {}
  /\ errors = {}
  /\ last = Outcome("none", "none", <<>>)
  /\ failed = {}
  /\ contexts = <<>>
  /\ doc \in AnalyzedDocs
  /\ doc_analysis = EmptyAnalysis
  /\ research_content = NoText
  /\ pdf_args = NoPdfArgs
  /\ pdf = NoPdf
  /\ research_calls = 0

\* analysis = self.analyze_content(content)
AnalyzeContent ==
  /\ pc = "analyze"
  /\ doc_analysis' = analyze_content(doc, faults).val
  /\ pc' = "analyzed"
  /\ UNCHANGED <<research_calls, contexts, doc, research_content, pdf_args, pdf>>
  /\ UNCHANGED <<keys, search_query, auto_generate, faults, attempt, requests,
                 slept, serp_data, deep_thinking, citation_urls, analyzer,
                 url_idx, attempted, scraped_content, competitor_data,
                 citation_data, enhanced_outline, research_report,
                 blog_content, displayed, errors, last, failed>>

NextAnalyze == AnalyzeContent

AnalyzeSpec == InitAnalyze /\ [][NextAnalyze]_vars

\* The research excerpt alone: extract_research_content applied to the report
\* generate_research_report builds from a deep-research answer.
\* the answers of up to n pieces; piece i is a tag, the summary marker or a
\* word of its own
ThinkingInputs(n) ==
  UNION {[1..k -> {ThinkOpen, ThinkClose, SummaryMarker, "word"}] : k \in 0..n}

\* the answer with its words numbered by position
Numbered(th) ==
  [i \in DOMAIN th |-> IF th[i] = "word" THEN "word " \o ToString(i) ELSE th[i]]

InitExtract ==
  /\ keys = [k \in KeyNames |-> TRUE]
  /\ search_query = "concrete mixing ratios"
  /\ auto_generate = TRUE
  /\ faults = {}
  /\ pc = "extract"
  /\ attempt = 0
  /\ requests = 0
  /\ slept = 0
  /\ serp_data = SerpJson(1, search_query)
  /\ deep_thinking \in {Numbered(th) : th \in ThinkingInputs(MaxThinking)}
  /\ citation_urls = <<>>
  /\ analyzer = [article_intent |-> "", secondary_keywords |-> <<>>]
  /\ url_idx = 0
  /\ attempted = {}
  /\ scraped_content = <<>>
  /\ competitor_data = <<Profile(CompetitorUrl(1), DocNone, EmptyAnalysis)>>
  /\ citation_data = <<>>
  /\ enhanced_outline = NoText
  /\ research_report = Text(generate_research_report(deep_thinking, competitor_data, 0))
  /\ blog_content = NoText
  /\ displayed = {}
  /\ errors = {}
  /\ last = Outcome("none", "none", <<>>)
  /\ failed = {}
  /\ contexts = <<>>
  /\ doc = DocEmpty
  /\ doc_analysis = EmptyAnalysis
  /\ research_content = NoText
  /\ pdf_args = NoPdfArgs
  /\ pdf = NoPdf
  /\ research_calls = 0

\* research_content = extract_research_content(research_report)
ExtractResearchContent ==
  /\ pc = "extract"
  /\ research_content' = extract_research_content(research_report)
  /\ pc' = "extracted"
  /\ UNCHANGED <<research_calls, contexts, doc, doc_analysis, pdf_args, pdf>>
  /\ UNCHANGED <<keys, search_query, auto_generate, faults, attempt, requests,
                 slept, serp_data, deep_thinking, citation_urls, analyzer,
                 url_idx, attempted, scraped_content, competitor_data,
                 citation_data, enhanced_outline, research_report,
                 blog_content, displayed, errors, last, failed>>

NextExtract == ExtractResearchContent

ExtractSpec == InitExtract /\ [][NextExtract]_vars

\* ------------------------------------------- create_combined_pdf on its own
\* the documents of 1..n lines
LineSeqs(n) == UNION {[1..k -> PdfLines] : k \in 1..n}

\* the research reports handed to create_combined_pdf
PdfResearchInputs ==
  {<<Line(0, 0, "body text")>>, <<Line(1, 1, "Title")>>, <<Line(0, 0, "tea [U+2615]")>>}

\* the blog contents handed to create_combined_pdf: None, "", and two texts
PdfBlogInputs ==
  {NoText, Text(<<EmptyLine>>), Text(<<Line(1, 2, "C# basics")>>),
   Text(<<Line(2, 2, "Section"), Line(0, 0, "body text")>>)}

\* create_combined_pdf(outline, research, blog_content, query) is entered
InitPdf ==
  /\ keys = [k \in KeyNames |-> TRUE]
  /\ search_query \in {"concrete mixing ratios", "ratios [U+6BD4]"}
  /\ auto_generate = TRUE
  /\ faults = {}
  /\ pc = "pdf_begin"
  /\ attempt = 0
  /\ requests = 0
  /\ slept = 0
  /\ serp_data = EmptyDict
  /\ deep_thinking = <<>>
  /\ citation_urls = <<>>
  /\ analyzer = [article_intent |-> "", secondary_keywords |-> <<>>]
  /\ url_idx = 0
  /\ attempted = {}
  /\ scraped_content = <<>>
  /\ competitor_data = <<>>
  /\ citation_data = <<>>
  /\ enhanced_outline \in {Text(t) : t \in LineSeqs(MaxLines)}
  /\ research_report \in {Text(t) : t \in PdfResearchInputs}
  /\ blog_content \in PdfBlogInputs
  /\ displayed = {}
  /\ errors = {}
  /\ last = Outcome("none", "none", <<>>)
  /\ failed = {}
  /\ contexts = <<>>
  /\ doc = DocEmpty
  /\ doc_analysis = EmptyAnalysis
  /\ research_content = NoText
  /\ pdf_args = [called |-> TRUE, outline |-> enhanced_outline,
                 research |-> research_report, blog_content |-> blog_content,
                 query |-> search_query]
  /\ pdf = NoPdf
  /\ research_calls = 0

NextPdf ==
  \/ create_combined_pdf_begin
  \/ pdf_outline_line
  \/ pdf_research_begin
  \/ pdf_research_line
  \/ pdf_blog_begin
  \/ pdf_blog_line
  \/ pdf_output

PdfSpec == InitPdf /\ [][NextPdf]_vars

\* ------------------------------------------------------------------- claims
\* the URLs that have a profile in a list of profiles
ProfiledUrls(profiles) == {profiles[i].url : i \in DOMAIN profiles}

InSerpLoop == pc \in {"serp_attempt", "serp_sleep"}

InCompetitorLoop == pc \in {"comp_attempt", "comp_sleep"}

InCitationLoop == pc \in {"cite_attempt", "cite_sleep"}

\* the URL list of the scraper call in progress
CurrentUrls ==
  IF InCompetitorLoop THEN competitor_urls
  ELSE IF InCitationLoop THEN citation_urls ELSE <<>>

\* C1: when the blog model call fails or returns no content after the outline
\* and the research report were produced, the blog stage reports an error and
\* the outline and the report are still shown to the operator with their
\* download buttons.
C1_BlogFailureKeepsArtifacts ==
  ("blog" \in failed /\ last.call = "blog") =>
    /\ errors \cap {"Error during analysis", "Error during content generation"} # {}
    /\ ~enhanced_outline.none
    /\ ~research_report.none
    /\ {"outline", "report"} \subseteq displayed

\* C2: a fetch whose first two attempts failed makes a third attempt, and when
\* the third attempt succeeds its response is what get_search_results returns,
\* and the scrapers append a profile of that URL with the scraped content; the
\* run is then still in the calling loop, no exception has left the fetcher.
C2_ThirdAttemptSucceeds ==
  /\ (last.call = "serp" /\ requests = 2 /\ last.kind \in {"non200", "exception"})
       => InSerpLoop
  /\ (last.call = "serp" /\ requests = 3 /\ last.kind = "ok")
       => (pc = "serp_check" /\ serp_data = last.payload)
  /\ (last.call = "scrape" /\ requests = 2 /\ last.kind = "exception")
       => /\ InCompetitorLoop \/ InCitationLoop
          /\ pc \in {"comp_sleep", "cite_sleep"} \/ attempt = 2
          /\ url_idx \in attempted
  /\ (last.call = "scrape" /\ requests = 3 /\ last.kind = "ok")
       => /\ pc \in {"comp_attempt", "cite_attempt"}
          /\ scraped_content # <<>>
          /\ LET p == scraped_content[Len(scraped_content)]
             IN  /\ p.url = CurrentUrls[url_idx - 1]
                 /\ p.content = ResultContent(last.payload)

C2_Witness ==
  /\ last.call = "scrape" /\ requests = 3 /\ last.kind = "ok"
  /\ pc = "comp_attempt"
  /\ Len(scraped_content) = 1

\* C3: a URL whose scrape failed on all three attempts has no profile, the
\* scraper is then at the next URL of the list (nothing was raised), and when
\* the loop of a scraper ends every URL of its list has been attempted.
C3_FailingUrlIsLocal ==
  /\ (last.call = "scrape" /\ last.kind = "exception" /\ requests = ScrapeMaxRetries)
       => /\ pc \in {"comp_attempt", "cite_attempt"}
          /\ attempt = 0
          /\ url_idx - 1 \in attempted
          /\ CurrentUrls[url_idx - 1] \notin ProfiledUrls(scraped_content)
  /\ (InCompetitorLoop \/ InCitationLoop)
       => /\ 1..(url_idx - 1) \subseteq attempted
          /\ ProfiledUrls(scraped_content) \subseteq {CurrentUrls[i] : i \in attempted}
  /\ (pc \in {"comp_attempt", "cite_attempt"} /\ url_idx > Len(CurrentUrls))
       => attempted = DOMAIN CurrentUrls

\* the first URL was given up after three attempts, the second has a profile
C3_Witness ==
  /\ pc = "comp_attempt"
  /\ url_idx > Len(competitor_urls)
  /\ Len(competitor_urls) = 2
  /\ ProfiledUrls(scraped_content) = {competitor_urls[2]}
  /\ keys["FIRECRAWL_API_KEY"]
  /\ "competitor" \in failed

\* C4: get_search_results issues at most 3 requests per call, the scrapers
\* call scrape_url at most 3 times per URL, and no attempt is pending for a
\* call that has returned a response or a URL that has a profile.
C4_AtMostThreeAttempts ==
  /\ pc \in {"serp_attempt", "serp_sleep", "serp_check"} => requests <= 3
  /\ (InCompetitorLoop \/ InCitationLoop) => requests <= 3
  /\ InSerpLoop => last.kind # "ok"
  /\ pc = "serp_sleep" => requests < 3
  /\ pc \in {"comp_sleep", "cite_sleep"} => requests < 3
  /\ ((InCompetitorLoop \/ InCitationLoop) /\ url_idx <= Len(CurrentUrls))
       => CurrentUrls[url_idx] \notin ProfiledUrls(scraped_content)

\* a URL was tried three times and given up
C4_Witness ==
  /\ last.call = "scrape" /\ last.kind = "exception"
  /\ requests = 3
  /\ pc = "cite_attempt"

\* C5: whenever a request or scrape call is a retry (it follows a failed
\* attempt of the same call or URL), the fetcher has slept its delay since
\* that failed attempt: 2 s in get_search_results, 5 s in the scrapers.
C5_SleepBeforeEveryRetry ==
  [][/\ (pc = "serp_attempt" /\ requests > 0 /\ requests' = requests + 1)
          => slept = SerpDelay
     /\ (pc \in {"comp_attempt", "cite_attempt"} /\ attempt > 0
           /\ requests' = requests + 1)
          => slept = ScrapeDelay]_vars

Terminal == {"returned", "aborted", "stopped", "shown", "finished"}

Completed == {"shown", "finished"}

AllKeys == \A k \in KeyNames : keys[k]

OnlyMissing(k) == ~keys[k] /\ \A j \in KeyNames \ {k} : keys[j]

\* the outline and the research report exist and are shown for download
Produced ==
  /\ ~enhanced_outline.none
  /\ ~research_report.none
  /\ {"outline", "report"} \subseteq displayed

PreBlogStages == {"search", "research_empty", "research_raise", "competitor",
                  "citation", "outline"}

DegradingStages == {"research_empty", "competitor", "citation", "outline"}

\* the text format_llm_outline gives for an empty LLM portion
EmptyOutline ==
  <<"SEO Article Outline for: \"", QueryOf(serp_data), "\"\n\n", "",
    "\n\nGenerated on: ", strftime(0), "\n">>

C8_BlogFailsLoudly ==
  last.call = "blog" =>
    LET msg == last.payload
        no_content == last.kind \in {"exception", "no_key"} \/ msg.none
                      \/ msg.content = <<>>
    IN  /\ no_content
          => /\ blog_content.none
             /\ pc = "aborted" \/ "Error during content generation" \in errors
        /\ ~blog_content.none
          => /\ ~no_content
             /\ msg.content[1].has_text
             /\ blog_content.text = <<msg.content[1].text>>
        /\ (~no_content /\ msg.content[1].has_text) => ~blog_content.none

\* the model answered with an empty content list and the run was aborted
C8_Witness ==
  /\ last.call = "blog" /\ last.kind = "ok"
  /\ ~last.payload.none /\ last.payload.content = <<>>
  /\ pc = "aborted"

\* C9: after generate_enhanced_outline the outline is a non-empty text and the
\* run goes on; when the model call failed the outline is the header
\* restating the query, an empty LLM portion and the timestamp footer.
C9_OutlineWrapperAlwaysEmitted ==
  /\ pc \in {"blog_auto", "display", "shown", "finished"}
       => (~enhanced_outline.none /\ ~TextIsEmpty(enhanced_outline.text))
  /\ (pc = "blog_auto" /\ last.call = "llm" /\ last.kind # "ok")
       => enhanced_outline.text = EmptyOutline

\* the outline model call raised although the key is set
C9_Witness ==
  /\ pc = "blog_auto"
  /\ last.call = "llm" /\ last.kind = "exception"
  /\ keys["OPENAI_API_KEY"]

\* the analysis dicts analyze_content may return for the faults of the run
WellFormed(content, a) ==
  /\ a.keys \in {{}, AnalysisKeys}
  /\ a.keys = {} <=> (content.none \/ "soup" \in faults)
  /\ a.keys = {} => a = EmptyAnalysis
  /\ a.word_count \in Nat
  /\ "phrases" \in faults => a.common_phrases = <<>>
  /\ "topics" \in faults => a.key_topics = <<>>
  /\ "structure" \in faults => a.content_structure = EmptyStructure
  /\ "elements" \in faults => a.content_elements = EmptyElements
  /\ Len(a.common_phrases) <= TopN /\ Len(a.key_topics) <= TopN

\* C10: whichever library calls of the analysis raise, analyze_content returns
\* an analysis dict (possibly {} or with empty fields), so every URL whose
\* scrape call succeeded has a profile with the scraped content.
C10_AnalyzeNeverRaises ==
  (last.call = "scrape" /\ last.kind = "ok" /\ requests > 0)
       => /\ pc \in {"comp_attempt", "cite_attempt"}
          /\ attempt = 0
          /\ scraped_content # <<>>
          /\ LET p == scraped_content[Len(scraped_content)]
             IN  /\ p.url = CurrentUrls[url_idx - 1]
                 /\ p.content = ResultContent(last.payload)
                 /\ WellFormed(p.content, p.analysis)

\* the topic extraction raises, the parse does not: the profile has its word
\* count and no key topics
C10_Witness ==
  /\ last.call = "scrape" /\ last.kind = "ok" /\ requests > 0
  /\ "topics" \in faults /\ "soup" \notin faults
  /\ scraped_content # <<>>
  /\ LET a == scraped_content[Len(scraped_content)].analysis
     IN  a.keys = AnalysisKeys /\ a.key_topics = <<>> /\ a.word_count > 0

\* the labels of the template that occur in a context text, in text order
LabelsOf(t) == SelectSeq(t, LAMBDA x : x \in Range(ContextLabels))

\* the pieces of a context text between two labels
Section(t, from, to) == SubSeq(t, FirstIdx(t, from) + 1, FirstIdx(t, to) - 1)

\* C11: every text prepare_llm_context returns carries the labels of its
\* sections in the order query, content parameters, intent, secondary
\* keywords, top articles, people-also-ask, related searches, competitors,
\* deep-research thinking, citations, also for empty lists and when a
\* formatter failed.
C11_SectionOrderFixed ==
  \A i \in DOMAIN contexts :
    ~contexts[i].exc => LabelsOf(contexts[i].text) = ContextLabels

\* a context was assembled from empty competitor and citation lists while a
\* formatter failed
C11_Witness ==
  /\ contexts # <<>>
  /\ ~contexts[1].exc
  /\ faults \cap Formatters # {}
  /\ contexts[1].scraped_data = <<>>
  /\ contexts[1].citation_data = <<>>
  /\ contexts[1].serp_data.related_searches = <<>>

\* the summary block that starts at piece i of a section is URL, word count
\* and at most five key topics of profile p
SummaryBlock(sec, i, p) ==
  LET later == {j \in DOMAIN sec : j > i /\ sec[j] = "URL: "}
      end == IF later = {} THEN Len(sec)
             ELSE (CHOOSE j \in later : \A k \in later : j <= k) - 1
      topics == {k \in (i + 5)..end : sec[k] \notin {", ", "\n\n"}}
  IN  /\ i + 4 <= Len(sec)
      /\ sec[i + 1] = p.url
      /\ sec[i + 2] = "\nWord Count: "
      /\ sec[i + 3] = ToString(IF "word_count" \in p.analysis.keys
                               THEN p.analysis.word_count ELSE 0)
      /\ sec[i + 4] = "\nKey Topics: "
      /\ Cardinality(topics) <= 5
      /\ Cardinality(topics) =
           Min(5, IF "key_topics" \in p.analysis.keys THEN Len(p.analysis.key_topics) ELSE 0)

\* C12: a context assembled (no formatter failing) from n organic results, p
\* questions, r related searches and c competitor profiles has min(n, 5)
\* top-article lines, p question lines, r related-search lines and c
\* competitor summary blocks, each with the URL, the word count and at most
\* five key topics of its profile, each in its own section.
C12_SectionCounts ==
  \A i \in DOMAIN contexts :
    (~contexts[i].exc /\ faults \cap Formatters = {}) =>
      LET t == contexts[i].text
          d == contexts[i].serp_data
          profiles == contexts[i].scraped_data
          top == Section(t, "--- Top Ranking Articles ---", "--- People Also Ask Questions ---")
          paa == Section(t, "--- People Also Ask Questions ---", "--- Related Searches ---")
          rel == Section(t, "--- Related Searches ---", "--- Competitor Content Analysis ---")
          comp == Section(t, "--- Competitor Content Analysis ---",
                          "--- Deep Research Thinking Process ---")
          starts == {k \in DOMAIN comp : comp[k] = "URL: "}
      IN  /\ Count(top, "- ") = Min(Len(d.organic_results), 5)
          /\ Count(paa, "- ") = Len(d.related_questions)
          /\ Count(rel, "- ") = Len(d.related_searches)
          /\ Cardinality(starts) = Len(profiles)
          /\ \A k \in starts :
               SummaryBlock(comp, k, profiles[1 + Cardinality({j \in starts : j < k})])

\* the scenario of 3 organic results, 2 questions, 1 related search and 2
\* competitor profiles, and one of more than five organic results
C12_Witness ==
  /\ contexts # <<>>
  /\ ~contexts[1].exc
  /\ faults = {}
  /\ Len(contexts[1].serp_data.organic_results) = 3
  /\ Len(contexts[1].serp_data.related_questions) = 2
  /\ Len(contexts[1].serp_data.related_searches) = 1
  /\ Len(contexts[1].scraped_data) = 2
  /\ Len(contexts[1].scraped_data[1].analysis.key_topics) > 5

\* two recorded calls were given the same four arguments
SameArguments(c1, c2) ==
  /\ c1.scraped_data = c2.scraped_data
  /\ c1.serp_data = c2.serp_data
  /\ c1.deep_thinking = c2.deep_thinking
  /\ c1.citation_data = c2.citation_data

IsRanking(list, input) ==
  /\ Len(list) <= 10
  /\ \A i \in DOMAIN list : list[i] \in Range(input)
  /\ \A i, j \in DOMAIN list :
       i < j => /\ list[i] # list[j]
                /\ Count(input, list[i]) >= Count(input, list[j])
                /\ Count(input, list[i]) = Count(input, list[j])
                     => FirstIdx(input, list[i]) < FirstIdx(input, list[j])

\* the lower-cased words of a page
LowerWords(d) ==
  LET w == Words(get_text(d.toks)) IN [i \in DOMAIN w |-> Lower(w[i])]

\* C14: key_topics and common_phrases of an analysed page are rankings of its
\* lower-cased words and of its phrase matches: at most 10 distinct entries,
\* by non-increasing frequency, equal frequencies by first occurrence.
C14_TopicsRanked ==
  pc = "analyzed" =>
    /\ IsRanking(doc_analysis.key_topics, LowerWords(doc))
    /\ IsRanking(doc_analysis.common_phrases, doc.phrases)

\* the long page was analysed: twelve distinct numbers, two of them twice;
\* the ten topics start with the words of every sentence, then the repeated
\* numbers in the order of their first occurrence
C14_Witness ==
  /\ pc = "analyzed"
  /\ Cardinality(Range(LowerWords(doc))) > 10
  /\ Len(doc_analysis.key_topics) = 10
  /\ doc_analysis.key_topics[3] = "2"
  /\ doc_analysis.key_topics[4] = "12"
  /\ Len(doc_analysis.common_phrases) = 10

\* piece i of the text lies in a thinking span: after an opening tag with no
\* closing tag in between
InThinking(s, i) ==
  \E j \in 1..(i - 1) :
    s[j] = ThinkOpen /\ \A k \in (j + 1)..i : s[k] # ThinkClose

\* piece i of the text follows the first summary marker
AfterMarker(s, i) == \E j \in 1..(i - 1) : s[j] = SummaryMarker

\* C15: the excerpt extract_research_content returns contains nothing that
\* followed the first summary marker of the report and nothing that lay in a
\* thinking span, closed or not (stated for the pieces that occur once in the
\* report, so that they can be traced).
C15_ExcerptIsClean ==
  pc = "extracted" =>
    \A i \in DOMAIN research_report.text :
      (/\ Count(research_report.text, research_report.text[i]) = 1
       /\ ~IsSpace(research_report.text[i])
       /\ \/ InThinking(research_report.text, i)
          \/ AfterMarker(research_report.text, i))
        => research_report.text[i] \notin Range(research_content.text)

\* the section titles drawn so far, in the order they were drawn
TitlesOf(ops) ==
  LET titles == SelectSeq(ops, LAMBDA o : o.op = "title")
  IN  [i \in 1..Len(titles) |-> titles[i].text]

\* C16: the document returned by create_combined_pdf has the sections
\* Outline, Research Report, Generated Content in this order, every section
\* title is the first thing on a page added for it, the Generated Content
\* section is there exactly when a blog content (neither None nor empty) was
\* handed over, and the two other sections are always there.
C16_SectionsInOrder ==
  pc = "pdf_done" =>
    /\ TitlesOf(pdf.ops) =
         <<"SEO Outline", "Research Report">> \o
         (IF ~pdf_args.blog_content.none /\ pdf_args.blog_content.text # <<EmptyLine>>
          THEN <<"Generated Blog Content">> ELSE <<>>)
    /\ \A i \in 1..Len(pdf.ops) :
         pdf.ops[i].op = "title" =>
           i > 1 /\ pdf.ops[i - 1].op = "add_page"
                 /\ pdf.ops[i - 1].section = pdf.ops[i].section

\* a document with the three sections is returned
C16_Witness ==
  /\ pc = "pdf_done"
  /\ TitlesOf(pdf.ops) = <<"SEO Outline", "Research Report", "Generated Blog Content">>


DrawnLines(ops) == SelectSeq(ops, LAMBDA o : o.op \in {"cell", "multi_cell"})

\* C18: in every section a line that starts with d > 0 '#' is drawn in bold
\* at a size that depends on d only and gets smaller as d grows, and every
\* other line, a line that follows a heading included, is drawn in the
\* regular style at the body size.
C18_HeadingsByDepth ==
  LET drawn == DrawnLines(pdf.ops)
  IN  \A i \in 1..Len(drawn) :
        /\ drawn[i].line.lead > 0 =>
             /\ drawn[i].style = "B"
             /\ \A j \in 1..Len(drawn) :
                  /\ drawn[j].line.lead = drawn[i].line.lead
                       => drawn[j].size = drawn[i].size
                  /\ drawn[j].line.lead > drawn[i].line.lead
                       => drawn[j].size < drawn[i].size
        /\ drawn[i].line.lead = 0 =>
             /\ drawn[i].style = ""
             /\ drawn[i].size = BodySize


\* the lines of a section of the document being built
SectionLines(section) ==
  CASE section = "outline" -> pdf_args.outline.text
    [] section = "research" -> pdf_args.research.text
    [] OTHER -> IF ~pdf_args.blog_content.none /\ pdf_args.blog_content.text # <<EmptyLine>>
                THEN pdf_args.blog_content.text ELSE <<>>

\* position of a section in the document
SectionRank(section) ==
  CASE section = "outline" -> 1 [] section = "research" -> 2 [] OTHER -> 3

\* C19: an error on a line never aborts create_combined_pdf.  The call fails
\* only for an error that is not a line's (the page header, the final
\* output); in a returned document every line of every section is either
\* drawn, with the characters outside latin-1 substituted, or skipped with
\* one log line, and the drawn lines are in the order of the input, the
\* lines and sections after a skipped line included.
C19_LineErrorsAreLocal ==
  LET drawn == DrawnLines(pdf.ops)
  IN  /\ pc = "pdf_failed" => last.kind \in {"header", "output"}
      /\ pc = "pdf_done" =>
           /\ \A section \in {"outline", "research", "blog"} :
                \A i \in 1..Len(SectionLines(section)) :
                  LET ops == {k \in 1..Len(drawn) :
                                drawn[k].section = section /\ drawn[k].idx = i}
                      logs == {k \in 1..Len(pdf.log) :
                                 pdf.log[k].section = section /\ pdf.log[k].idx = i}
                  IN  /\ Cardinality(ops) + Cardinality(logs) = 1
                      /\ \A k \in ops :
                           /\ drawn[k].line = SectionLines(section)[i]
                           /\ drawn[k].text = encode_replace(drawn[k].line.body)
                           /\ drawn[k].text \notin NonLatin1
           /\ Len(drawn) + Len(pdf.log) =
                Len(SectionLines("outline")) + Len(SectionLines("research"))
                  + Len(SectionLines("blog"))
           /\ \A j, k \in 1..Len(drawn) :
                j < k =>
                  \/ SectionRank(drawn[j].section) < SectionRank(drawn[k].section)
                  \/ /\ drawn[j].section = drawn[k].section
                     /\ drawn[j].idx < drawn[k].idx

\* a document is returned although the first line of the outline was skipped;
\* the next outline line, a line with a substituted character and the lines
\* of the later sections are drawn
C19_Witness ==
  /\ pc = "pdf_done"
  /\ pdf.log = <<[section |-> "outline", idx |-> 1]>>
  /\ \E k \in 1..Len(pdf.ops) :
       /\ pdf.ops[k].section = "outline" /\ pdf.ops[k].idx = 2
       /\ pdf.ops[k].text = "tea ?"
  /\ \E k \in 1..Len(pdf.ops) :
       pdf.ops[k].section = "research" /\ pdf.ops[k].op = "multi_cell"
  /\ \E k \in 1..Len(pdf.ops) :
       pdf.ops[k].section = "blog" /\ pdf.ops[k].op = "cell"


\* the profiles are those of URLs of the list, taken at increasing positions
InInputOrder(profiles, urls) ==
  \E f \in [1..Len(profiles) -> 1..Len(urls)] :
    /\ \A k \in 1..Len(profiles) : profiles[k].url = urls[f[k]]
    /\ \A j, k \in 1..Len(profiles) : j < k => f[j] < f[k]

\* one attempt for the URL at url_idx of the list: it is one of at most 3 for
\* this URL; the profile of the URL is appended exactly when the attempt
\* succeeded; the loop moves to the next URL after a success or the third
\* failure and stays at the URL otherwise
AttemptStep(urls) ==
  /\ attempt < 3
  /\ attempted \subseteq 1..url_idx
  /\ attempted' = attempted \cup {url_idx}
  /\ IF last'.kind = "ok"
     THEN /\ Len(scraped_content') = Len(scraped_content) + 1
          /\ SubSeq(scraped_content', 1, Len(scraped_content)) = scraped_content
          /\ scraped_content'[Len(scraped_content')].url = urls[url_idx]
     ELSE scraped_content' = scraped_content
  /\ url_idx' = IF last'.kind = "ok" \/ attempt = 2 THEN url_idx + 1 ELSE url_idx
  /\ InInputOrder(scraped_content', SubSeq(urls, 1, url_idx))

\* C20: the list returned by scrape_competitor_content, and by
\* scrape_citations, holds exactly the input URLs that succeeded within their
\* 3 attempts, one profile for each, in the order of the input: the attempts
\* for a URL are over before the first attempt for the next one, a URL that
\* succeeded is not attempted again, and the retries a URL needed do not
\* change the place of its profile.
C20_ProfilesInInputOrder ==
  [][/\ (pc = "comp_attempt" /\ url_idx <= Len(competitor_urls))
          => AttemptStep(competitor_urls)
     /\ (pc = "cite_attempt" /\ url_idx <= Len(citation_urls))
          => AttemptStep(citation_urls)
     /\ (pc = "comp_attempt" /\ url_idx > Len(competitor_urls))
          => /\ competitor_data' = scraped_content
             /\ InInputOrder(competitor_data', competitor_urls)
     /\ (pc = "cite_attempt" /\ url_idx > Len(citation_urls))
          => /\ citation_data' = scraped_content
             /\ InInputOrder(citation_data', citation_urls)]_vars

\* the second URL succeeded at its third attempt and its profile follows the
\* profile of the first URL
C20_Witness ==
  /\ pc = "comp_attempt"
  /\ url_idx = 3
  /\ requests = 3
  /\ last.kind = "ok"
  /\ Len(scraped_content) = 2
  /\ scraped_content[1].url = competitor_urls[1]
  /\ scraped_content[2].url = competitor_urls[2]


\* the positions of a run before deep_research is called
BeforeResearch ==
  {"sidebar", "inputs", "serp_begin", "serp_attempt", "serp_sleep",
   "serp_check", "research", "returned", "stopped"}

\* deep_research was called and returned {}: its key is not set, or the
\* provider answered with a status other than 200
ResearchReturnedEmpty ==
  /\ research_calls > 0
  /\ ~keys["PERPLEXITY_API_KEY"] \/ "research_empty" \in failed

\* C21: deep_research is called once in a run and not again.  When it
\* returned {} (key not set, or a status other than 200) the run goes on to
\* the analyzer with the thinking text "No deep research output provided."
\* and no citation URLs, the citation scraper is not entered, and a run in
\* which the other keys are set ends with the outline and the report
\* generated, the report carrying the placeholder text.
C21_ResearchOnceThenPlaceholder ==
  /\ research_calls = (IF pc \in BeforeResearch THEN 0 ELSE 1) \/ pc = "aborted"
  /\ research_calls <= 1
  /\ ResearchReturnedEmpty =>
       /\ last.call = "research" => pc = "init_analyzer"
       /\ deep_thinking = <<"No deep research output provided.">>
       /\ citation_urls = <<>>
       /\ pc \notin {"cite_attempt", "cite_sleep"}
       /\ citation_data = <<>> /\ "citation" \notin failed
       /\ (pc \in Terminal /\ \A k \in KeyNames \ {"PERPLEXITY_API_KEY"} : keys[k])
            => /\ ~enhanced_outline.none /\ ~TextIsEmpty(enhanced_outline.text)
               /\ ~research_report.none
               /\ "No deep research output provided." \in Range(research_report.text)

\* the provider answered with a status other than 200 and the run ended with
\* the outline and the report shown
C21_Witness ==
  /\ AllKeys
  /\ failed = {"research_empty"}
  /\ research_calls = 1
  /\ pc = "shown"
  /\ Produced
  /\ deep_thinking = DefaultThinking
  /\ citation_data = <<>>

====
